---- MODULE Spec2Model ----
(***************************************************************************)
(* A model of the swarm-replication engine of p2p-mesh-sharing: the        *)
(* chunker (model-serializer.ts), the swarm manager (swarm-manager.ts),    *)
(* the P2P coordinator (p2p-client.ts), the transport handler              *)
(* (webrtc-handler.ts) and the tracker (server/index.js).                  *)
(***************************************************************************)
EXTENDS Integers, Sequences, FiniteSets, TLC

(***************************************************************************)
(* Bounds of the model.                                                    *)
(***************************************************************************)
\* piece size in bytes; the program's value is 15 * 1024 (model-serializer.ts:51),
\* scaled down so that artifacts of a few bytes span several pieces
CHUNK_SIZE == 2
\* longest artifact, in bytes, handed to the chunker
MaxLen == 5
\* largest totalChunks a metadata frame announces to the participant
MaxChunks == 2
\* largest chunkIndex a piece frame carries is MaxChunks + IndexSlack - 1
IndexSlack == 1
\* the clock advances in steps of TickMs milliseconds up to MaxTicks steps
TickMs == 40000
MaxTicks == 1
\* the history of metadata copies per peer record counts up to MaxCopies
MaxCopies == 2
\* handleDownloadComplete calls suspended at once, per model
MaxImports == 1
\* the tracker socket is opened at most MaxSessions times
MaxSessions == 2
\* the content of SpecBudget has CHUNKS_PER_REQUEST + BudgetSlack pieces
BudgetSlack == 2
\* SpecSignal: a party announces at most MaxAnnounces times
MaxAnnounces == 1
\* SpecConn: free places in the peer map at the start, newcomers beyond the cap, established
\* peers whose connection changes state, clock step and number of clock steps
CapSlack == 1
ExtraPeers == 1
FlakyPeers == 1
ConnStepMs == 5000
ConnSteps == 3
\* SpecTracker: identical announces in a row, clock step and number of clock steps
MaxRepeats == 2
TrackerStepMs == 320000
TrackerSteps == 1
\* SpecRooms: clock step and number of clock steps
RoomStepMs == 200000
RoomSteps == 1
\* SpecRecover: frames damaged in flight
MaxFaults == 1
\* SpecReceiver: calls of receiveChunk in one run
MaxDeliveries == 4
\* the pieces of the content the manager leeches on its own
SmChunks == 3
\* the manager's clock: where it starts, the step it advances by and how many steps
SmEpoch == 1000
SmStepMs == 20000
SmSteps == 2

(***************************************************************************)
(* Program constants.                                                      *)
(***************************************************************************)
CHUNKS_PER_REQUEST == 5
MAX_PEERS == 50
REQUEST_TIMEOUT == 30000
MOD == 65521
DISCONNECT_GRACE_PERIOD == 10000
ICE_RESTART_GRACE_PERIOD == 5000
STALE_TIMEOUT == 300000
STALE_MS == 180000

\* the byte values artifacts are made of
Bytes == {0, 1, 255}

Max2(a, b) == IF a >= b THEN a ELSE b
Min2(a, b) == IF a <= b THEN a ELSE b
CeilDiv(a, b) == (a + b - 1) \div b

RECURSIVE Pow2(_)
Pow2(n) == IF n <= 0 THEN 1 ELSE 2 * Pow2(n - 1)

(***************************************************************************)
(* utils.ts: bitfields are byte arrays, most significant bit first.        *)
(***************************************************************************)
\* a Uint8Array of n zero bytes
ZeroBytes(n) == [k \in 1..n |-> 0]

\* bitfield[byteIndex] & (1 << (7 - bitIndex)) !== 0; a read outside the array is
\* undefined and undefined & x is 0
hasBit(bitfield, index) ==
    LET byteIndex == index \div 8
        bitIndex  == index % 8
    IN  /\ index >= 0
        /\ byteIndex + 1 \in DOMAIN bitfield
        /\ (bitfield[byteIndex + 1] \div Pow2(7 - bitIndex)) % 2 = 1

\* bitfield[byteIndex] |= (1 << (7 - bitIndex)); a write outside a typed array is dropped
setBit(bitfield, index) ==
    LET byteIndex == index \div 8
        bitIndex  == index % 8
    IN  IF index >= 0 /\ byteIndex + 1 \in DOMAIN bitfield /\ ~hasBit(bitfield, index)
        THEN [bitfield EXCEPT ![byteIndex + 1] = @ + Pow2(7 - bitIndex)]
        ELSE bitfield

RECURSIVE SetBits(_, _)
SetBits(bitfield, S) ==
    IF S = {} THEN bitfield
    ELSE LET i == CHOOSE x \in S : TRUE
         IN  SetBits(setBit(bitfield, i), S \ {i})

createBitfield(chunks, totalChunks) == SetBits(ZeroBytes(CeilDiv(totalChunks, 8)), chunks)

(***************************************************************************)
(* utils.ts: base64.  A string is a sequence of sextets 0..63, 64 is '='.  *)
(***************************************************************************)
PadChar == 63 + 1

RECURSIVE arrayBufferToBase64(_)
arrayBufferToBase64(bytes) ==
    IF Len(bytes) = 0 THEN << >>
    ELSE IF Len(bytes) = 1 THEN
        << bytes[1] \div 4, (bytes[1] % 4) * 16, PadChar, PadChar >>
    ELSE IF Len(bytes) = 2 THEN
        << bytes[1] \div 4, (bytes[1] % 4) * 16 + bytes[2] \div 16,
           (bytes[2] % 16) * 4, PadChar >>
    ELSE
        << bytes[1] \div 4, (bytes[1] % 4) * 16 + bytes[2] \div 16,
           (bytes[2] % 16) * 4 + bytes[3] \div 64, bytes[3] % 64 >>
        \o arrayBufferToBase64(SubSeq(bytes, 4, Len(bytes)))

RECURSIVE base64ToArrayBuffer(_)
base64ToArrayBuffer(str) ==
    IF Len(str) < 4 THEN << >>
    ELSE LET s1 == str[1]
             s2 == str[2]
             s3 == str[3]
             s4 == str[4]
             b1 == s1 * 4 + s2 \div 16
             b2 == (s2 % 16) * 16 + (IF s3 = PadChar THEN 0 ELSE s3 \div 4)
             b3 == ((IF s3 = PadChar THEN 0 ELSE s3) % 4) * 64 + (IF s4 = PadChar THEN 0 ELSE s4)
             head == IF s3 = PadChar THEN << b1 >>
                     ELSE IF s4 = PadChar THEN << b1, b2 >>
                     ELSE << b1, b2, b3 >>
         IN  head \o base64ToArrayBuffer(SubSeq(str, 5, Len(str)))

(***************************************************************************)
(* model-serializer.ts: checksum, chunking and reassembly.                 *)
(***************************************************************************)
RECURSIVE ChecksumLoop(_, _, _, _)
ChecksumLoop(data, i, a, b) ==
    IF i > Len(data) THEN << a, b >>
    ELSE LET a2 == (a + data[i]) % MOD
             b2 == (b + a2) % MOD
         IN  ChecksumLoop(data, i + 1, a2, b2)

\* (b << 16) | a as a signed 32-bit integer
calculateChecksum(data) ==
    LET ab == ChecksumLoop(data, 1, 1, 0)
        a  == ab[1]
        b  == ab[2]
    IN  IF b >= 32768 THEN (b - 65536) * 65536 + a ELSE b * 65536 + a

verifyChunk(chunk) == calculateChecksum(chunk.data) = chunk.checksum

createChunks(modelId, data, totalChunks) ==
    [k \in 1..totalChunks |->
        LET i         == k - 1
            start     == i * CHUNK_SIZE
            end       == Min2(start + CHUNK_SIZE, Len(data))
            chunkData == SubSeq(data, start + 1, end)
        IN  [modelId |-> modelId, index |-> i, total |-> totalChunks,
             data |-> chunkData, checksum |-> calculateChecksum(chunkData)]]

\* prepareModel that counts one chunk more than the whole chunks of the artifact
prepareModelFloor(modelId, modelData) ==
    LET totalChunks == (Len(modelData) \div CHUNK_SIZE) + 1
    IN  [package |-> [id |-> modelId, totalSize |-> Len(modelData), totalChunks |-> totalChunks],
         chunks  |-> createChunks(modelId, modelData, totalChunks)]

\* the package and the chunks of an artifact; the transform and provenance fields
\* of the package play no part in replication and are left out
prepareModel(modelId, modelData) ==
    LET totalChunks == CeilDiv(Len(modelData), CHUNK_SIZE)
    IN  [package |-> [id |-> modelId, totalSize |-> Len(modelData), totalChunks |-> totalChunks],
         chunks  |-> createChunks(modelId, modelData, totalChunks)]

\* Array.prototype.sort with (a, b) => a.index - b.index: a stable sort
RECURSIVE InsertByIndex(_, _)
InsertByIndex(sorted, c) ==
    IF sorted = << >> THEN << c >>
    ELSE IF sorted[Len(sorted)].index <= c.index THEN Append(sorted, c)
    ELSE Append(InsertByIndex(SubSeq(sorted, 1, Len(sorted) - 1), c), sorted[Len(sorted)])

RECURSIVE SortByIndex(_)
SortByIndex(chunks) ==
    IF chunks = << >> THEN << >>
    ELSE InsertByIndex(SortByIndex(SubSeq(chunks, 1, Len(chunks) - 1)), chunks[Len(chunks)])

RECURSIVE ConcatData(_)
ConcatData(chunks) ==
    IF chunks = << >> THEN << >>
    ELSE chunks[1].data \o ConcatData(Tail(chunks))

\* createBlobFromChunks that joins the chunks in the order it is given them
createBlobUnsorted(chunks) == ConcatData(chunks)

\* the bytes of the blob behind the URL that createBlobFromChunks returns
createBlobFromChunks(chunks) == ConcatData(SortByIndex(chunks))

(***************************************************************************)
(* swarm-manager.ts.  The manager's operations are functions of the swarm  *)
(* and return the swarm as they leave it with the actions they emit.       *)
(***************************************************************************)
EmptyMap == [k \in {} |-> 0]
MapPut(f, k, v) == [x \in DOMAIN f \cup {k} |-> IF x = k THEN v ELSE f[x]]
MapDel(f, k) == [x \in DOMAIN f \ {k} |-> f[x]]

NoSwarm == [exists |-> FALSE]
NoBitfield == << -1 >>
Undefined == 0 - 1
NoPeer == ""

\* an action intent; unused fields are Undefined
Act(type, peerId, modelId, chunkIndex, payload) ==
    [type |-> type, peerId |-> peerId, modelId |-> modelId,
     chunkIndex |-> chunkIndex, payload |-> payload]

createSwarm(modelId, metadata, chunks, clock) ==
    LET isSeeder == Len(chunks) > 0
    IN  [exists          |-> TRUE,
         modelId         |-> modelId,
         metadata        |-> metadata,
         ownChunks       |-> {k - 1 : k \in 1..Len(chunks)},
         requestedChunks |-> EmptyMap,
         receivedChunks  |-> [i \in {chunks[k].index : k \in 1..Len(chunks)} |->
                                 LET k == CHOOSE k \in 1..Len(chunks) : chunks[k].index = i
                                 IN  [index |-> i, data |-> chunks[k].data,
                                      checksum |-> chunks[k].checksum]],
         totalChunks     |-> IF isSeeder THEN Len(chunks) ELSE metadata.totalChunks,
         startTime       |-> IF isSeeder THEN Undefined ELSE clock]

\* every entry is dropped or none is: the test reads the swarm's start time, not the request's
checkTimeouts(swarm, clock) ==
    IF swarm.startTime # Undefined /\ swarm.startTime # 0
       /\ clock - swarm.startTime > REQUEST_TIMEOUT
    THEN [swarm EXCEPT !.requestedChunks = EmptyMap]
    ELSE swarm

\* needed, in ascending index order
RECURSIVE NeededFrom(_, _)
NeededFrom(swarm, i) ==
    IF i >= swarm.totalChunks THEN << >>
    ELSE IF i \notin swarm.ownChunks /\ i \notin DOMAIN swarm.requestedChunks
         THEN << i >> \o NeededFrom(swarm, i + 1)
         ELSE NeededFrom(swarm, i + 1)

\* peerBitfields is the sequence of [peerId, bitfield] of the open peers, in the
\* insertion order of the peers map; bitfield is NoBitfield when the peer has none
\* for the content
Rarity(chunkIdx, peerBitfields) ==
    Cardinality({k \in 1..Len(peerBitfields) :
        /\ peerBitfields[k].bitfield # NoBitfield
        /\ hasBit(peerBitfields[k].bitfield, chunkIdx)})

\* needed.sort((a, b) => rarity(a) - rarity(b)): stable
RECURSIVE InsertByRarity(_, _, _)
InsertByRarity(sorted, c, peerBitfields) ==
    IF sorted = << >> THEN << c >>
    ELSE IF Rarity(sorted[Len(sorted)], peerBitfields) <= Rarity(c, peerBitfields)
         THEN Append(sorted, c)
         ELSE Append(InsertByRarity(SubSeq(sorted, 1, Len(sorted) - 1), c, peerBitfields),
                     sorted[Len(sorted)])

\* needed left in ascending index order
SortNotAtAll(needed, peerBitfields) == needed

RECURSIVE SortByRarity(_, _)
SortByRarity(needed, peerBitfields) ==
    IF needed = << >> THEN << >>
    ELSE InsertByRarity(SortByRarity(SubSeq(needed, 1, Len(needed) - 1), peerBitfields),
                        needed[Len(needed)], peerBitfields)

PeerRequests(requested, peerId) ==
    Cardinality({i \in DOMAIN requested : requested[i] = peerId})

\* the same loop without the look at the peer's bitfield
RECURSIVE RequestLoopBlind(_, _, _, _, _, _, _)
RequestLoopBlind(needed, j, peer, modelId, peerRequests, requestedThisRound, st) ==
    IF j > Len(needed) THEN st
    ELSE IF peerRequests + requestedThisRound >= CHUNKS_PER_REQUEST THEN st
    ELSE IF needed[j] \notin DOMAIN st.requested
         THEN RequestLoopBlind(needed, j + 1, peer, modelId, peerRequests, requestedThisRound + 1,
                  [requested |-> MapPut(st.requested, needed[j], peer.peerId),
                   actions   |-> Append(st.actions,
                       Act("request_chunk", peer.peerId, modelId, needed[j], Undefined))])
         ELSE RequestLoopBlind(needed, j + 1, peer, modelId, peerRequests, requestedThisRound, st)

\* the for loop over needed for one peer; st is [requested, actions]
RECURSIVE RequestLoop(_, _, _, _, _, _, _)
RequestLoop(needed, j, peer, modelId, peerRequests, requestedThisRound, st) ==
    IF j > Len(needed) THEN st
    ELSE IF peerRequests + requestedThisRound >= CHUNKS_PER_REQUEST THEN st
    ELSE IF hasBit(peer.bitfield, needed[j]) /\ needed[j] \notin DOMAIN st.requested
         THEN RequestLoop(needed, j + 1, peer, modelId, peerRequests, requestedThisRound + 1,
                  [requested |-> MapPut(st.requested, needed[j], peer.peerId),
                   actions   |-> Append(st.actions,
                       Act("request_chunk", peer.peerId, modelId, needed[j], Undefined))])
         ELSE RequestLoop(needed, j + 1, peer, modelId, peerRequests, requestedThisRound, st)

\* peerBitfields.forEach
RECURSIVE PeerLoop(_, _, _, _, _)
PeerLoop(needed, peerBitfields, k, modelId, st) ==
    IF k > Len(peerBitfields) THEN st
    ELSE LET peer == peerBitfields[k]
             peerRequests == PeerRequests(st.requested, peer.peerId)
         IN  IF peer.bitfield = NoBitfield \/ peerRequests >= CHUNKS_PER_REQUEST
             THEN PeerLoop(needed, peerBitfields, k + 1, modelId, st)
             ELSE PeerLoop(needed, peerBitfields, k + 1, modelId,
                      RequestLoop(needed, 1, peer, modelId, peerRequests, 0, st))

requestMoreChunks(swarm, modelId, peerBitfields) ==
    IF ~swarm.exists THEN [swarm |-> swarm, actions |-> << >>]
    ELSE LET needed == NeededFrom(swarm, 0)
         IN  IF needed = << >> THEN [swarm |-> swarm, actions |-> << >>]
             ELSE LET st == PeerLoop(SortByRarity(needed, peerBitfields), peerBitfields, 1,
                                     modelId,
                                     [requested |-> swarm.requestedChunks, actions |-> << >>])
                  IN  [swarm   |-> [swarm EXCEPT !.requestedChunks = st.requested],
                       actions |-> st.actions]

\* the first index below totalChunks that is not owned, not requested and set in the bitfield
RECURSIVE FirstWanted(_, _, _)
FirstWanted(swarm, peerBitfield, i) ==
    IF i >= swarm.totalChunks THEN Undefined
    ELSE IF /\ i \notin swarm.ownChunks
            /\ i \notin DOMAIN swarm.requestedChunks
            /\ hasBit(peerBitfield, i)
         THEN i
         ELSE FirstWanted(swarm, peerBitfield, i + 1)

requestChunksFromPeer(swarm, peerId, modelId, peerBitfield) ==
    IF ~swarm.exists THEN [swarm |-> swarm, actions |-> << >>]
    ELSE LET i == FirstWanted(swarm, peerBitfield, 0)
         IN  IF i = Undefined THEN [swarm |-> swarm, actions |-> << >>]
             ELSE [swarm   |-> [swarm EXCEPT !.requestedChunks = MapPut(@, i, peerId)],
                   actions |-> << Act("request_chunk", peerId, modelId, i, Undefined) >>]

\* ownChunks.size / totalChunks * 100, kept exact as the pair << numerator, denominator >>
Progress(swarm) == << Cardinality(swarm.ownChunks) * 100, swarm.totalChunks >>

\* the same with the progress reported before the have
AfterStoreProgressFirst(stored, message, peerBitfields, clock) ==
    LET first == << Act("download_progress", NoPeer, message.modelId, Undefined,
                        Progress(stored)),
                    Act("broadcast_have", NoPeer, message.modelId, message.chunkIndex, Undefined) >>
        swept == checkTimeouts(stored, clock)
    IN  IF Cardinality(swept.ownChunks) = swept.totalChunks
        THEN [swarm   |-> swept,
              actions |-> Append(first,
                  Act("download_complete", NoPeer, message.modelId, Undefined, Undefined))]
        ELSE LET more == requestMoreChunks(swept, message.modelId, peerBitfields)
             IN  [swarm |-> more.swarm, actions |-> first \o more.actions]

\* handlePiece from the progress log on: the have and progress actions, the timeout
\* sweep, then download_complete or further requests
AfterStore(stored, message, peerBitfields, clock) ==
    LET first == << Act("broadcast_have", NoPeer, message.modelId, message.chunkIndex, Undefined),
                    Act("download_progress", NoPeer, message.modelId, Undefined,
                        Progress(stored)) >>
        swept == checkTimeouts(stored, clock)
    IN  IF Cardinality(swept.ownChunks) = swept.totalChunks
        THEN [swarm   |-> swept,
              actions |-> Append(first,
                  Act("download_complete", NoPeer, message.modelId, Undefined, Undefined))]
        ELSE LET more == requestMoreChunks(swept, message.modelId, peerBitfields)
             IN  [swarm |-> more.swarm, actions |-> first \o more.actions]

\* the chunk handlePiece builds from a piece frame
ChunkOf(message) ==
    [index |-> message.chunkIndex, data |-> base64ToArrayBuffer(message.data),
     checksum |-> message.checksum]

\* handlePiece that leaves the request of a stored piece in requestedChunks
handlePieceKeepsRequest(swarm, peerId, message, peerBitfields, clock) ==
    IF ~swarm.exists THEN [swarm |-> swarm, actions |-> << >>]
    ELSE IF ~verifyChunk(ChunkOf(message))
         THEN [swarm   |-> [swarm EXCEPT !.requestedChunks = MapDel(@, message.chunkIndex)],
               actions |-> << >>]
         ELSE AfterStore([swarm EXCEPT
                             !.receivedChunks = MapPut(@, message.chunkIndex, ChunkOf(message)),
                             !.ownChunks      = @ \cup {message.chunkIndex}],
                         message, peerBitfields, clock)

\* handlePiece that stores a piece without verifying it
handlePieceUnverified(swarm, peerId, message, peerBitfields, clock) ==
    IF ~swarm.exists THEN [swarm |-> swarm, actions |-> << >>]
    ELSE AfterStore([swarm EXCEPT
                        !.receivedChunks  = MapPut(@, message.chunkIndex, ChunkOf(message)),
                        !.ownChunks       = @ \cup {message.chunkIndex},
                        !.requestedChunks = MapDel(@, message.chunkIndex)],
                    message, peerBitfields, clock)

\* handlePiece that announces a piece before it verifies it
handlePieceHaveFirst(swarm, peerId, message, peerBitfields, clock) ==
    IF ~swarm.exists THEN [swarm |-> swarm, actions |-> << >>]
    ELSE IF ~verifyChunk(ChunkOf(message))
         THEN [swarm   |-> [swarm EXCEPT !.requestedChunks = MapDel(@, message.chunkIndex)],
               actions |-> << Act("broadcast_have", NoPeer, message.modelId,
                                  message.chunkIndex, Undefined) >>]
         ELSE AfterStore([swarm EXCEPT
                             !.receivedChunks  = MapPut(@, message.chunkIndex, ChunkOf(message)),
                             !.ownChunks       = @ \cup {message.chunkIndex},
                             !.requestedChunks = MapDel(@, message.chunkIndex)],
                         message, peerBitfields, clock)

\* handlePiece that leaves the request of a piece that fails verification in place
handlePieceKeepsFailed(swarm, peerId, message, peerBitfields, clock) ==
    IF ~swarm.exists THEN [swarm |-> swarm, actions |-> << >>]
    ELSE IF ~verifyChunk(ChunkOf(message))
         THEN [swarm |-> swarm, actions |-> << >>]
         ELSE AfterStore([swarm EXCEPT
                             !.receivedChunks  = MapPut(@, message.chunkIndex, ChunkOf(message)),
                             !.ownChunks       = @ \cup {message.chunkIndex},
                             !.requestedChunks = MapDel(@, message.chunkIndex)],
                         message, peerBitfields, clock)

\* message is the piece frame [modelId, chunkIndex, data (base64), checksum]
handlePiece(swarm, peerId, message, peerBitfields, clock) ==
    IF ~swarm.exists THEN [swarm |-> swarm, actions |-> << >>]
    ELSE IF ~verifyChunk(ChunkOf(message))
         THEN [swarm   |-> [swarm EXCEPT !.requestedChunks = MapDel(@, message.chunkIndex)],
               actions |-> << >>]
         ELSE AfterStore([swarm EXCEPT
                             !.receivedChunks  = MapPut(@, message.chunkIndex, ChunkOf(message)),
                             !.ownChunks       = @ \cup {message.chunkIndex},
                             !.requestedChunks = MapDel(@, message.chunkIndex)],
                         message, peerBitfields, clock)

\* handleRequest that answers with the stored piece of the lowest index
handleRequestLowestPiece(swarm, peerId, message) ==
    IF ~swarm.exists \/ message.chunkIndex \notin swarm.ownChunks THEN << >>
    ELSE IF message.chunkIndex \notin DOMAIN swarm.receivedChunks THEN << >>
    ELSE LET lowest == CHOOSE j \in DOMAIN swarm.receivedChunks :
                           \A l \in DOMAIN swarm.receivedChunks : j <= l
         IN  << Act("send_piece", peerId, message.modelId, message.chunkIndex,
                    swarm.receivedChunks[lowest]) >>

\* the send_piece action, or << >> for null
handleRequest(swarm, peerId, message) ==
    IF ~swarm.exists \/ message.chunkIndex \notin swarm.ownChunks THEN << >>
    ELSE IF message.chunkIndex \notin DOMAIN swarm.receivedChunks THEN << >>
    ELSE << Act("send_piece", peerId, message.modelId, message.chunkIndex,
                swarm.receivedChunks[message.chunkIndex]) >>

(***************************************************************************)
(* The participant: p2p-client.ts (coordinator) over webrtc-handler.ts.    *)
(***************************************************************************)
Me == "me"
Peers == {"p1", "p2"}
Models == {"m1"}

VARIABLES
    ws,             \* readyState of the tracker socket: "connecting", "open", "closed"
    mgr,            \* TRUE once onopen has built a WebRTCHandler and a SwarmManager
    rcTimer,        \* the request-connection timeout is pending
    reconnTimer,    \* the reconnect timeout is pending
    clientId,       \* the id the tracker assigned, NoPeer before welcome
    peers,          \* WebRTCHandler.peers: the peer records in insertion order
    sessions,       \* how many times the tracker socket has opened
    orphans,        \* per peer, the channel of its connection in a replaced WebRTCHandler:
                    \* "gone", "connecting" or "open"
    swarms,         \* SwarmManager.swarms
    metadataSentTo, \* P2PClient.metadataSentTo: modelId -> set of peer ids
    importing,      \* handleDownloadComplete calls suspended at ImportMeshAsync, per model
    usedIds,        \* content ids this session has seen or generated
    now,            \* Date.now()
    out,            \* what the last handler sent or published, in order
    sentCopies,     \* history: metadata frames sent to a peer since its record was made
    netIn,          \* frames in flight from the remote seeder to the participant
    netOut,         \* frames in flight from the participant to the remote seeder
    seed,           \* the swarm of the remote seeder
    artifact,       \* SpecChunker: the bytes handed to prepareModel
    pieces,         \* SpecChunker: the chunks, in the order they are supplied
    blob,           \* SpecChunker: the bytes createBlobFromChunks assembled, or NoBlob
    sigWs,          \* SpecSignal: per party, the state of its tracker socket
    sigId,          \* SpecSignal: per party, P2PClient.clientId
    sigPeers,       \* SpecSignal: per party, WebRTCHandler.peers
    sigTimer,       \* SpecSignal: per party, the request-connection timeout is pending
    sigAnnounced,   \* SpecSignal: per party, how many announces it has sent
    sigIn,          \* SpecSignal: per party, messages in flight from the tracker
    sigOut,         \* SpecSignal: per party, messages in flight to the tracker
    trClients,      \* SpecSignal: the tracker's clients
    trSwarms,       \* SpecSignal: the tracker's swarms, modelId -> peer ids in map order
    cPeers,         \* SpecConn: the keys of WebRTCHandler.peers
    cPending,       \* SpecConn: peers whose createPeerConnection is suspended at createOffer
    cState,         \* SpecConn: per peer, RTCPeerConnection.connectionState, "none" without one
    cTimer,         \* SpecConn: WebRTCHandler.disconnectTimeouts, per peer a timer or NoTimer
    cSince,         \* SpecConn: history, when the connection entered its present state
    cClock,         \* SpecConn: Date.now()
    cOut,           \* SpecConn: what the last handler sent, published or returned
    cInitiator,     \* SpecConn: the peers whose record has isInitiator = true
    cRestarted,     \* SpecConn: history, the peers sent an iceRestart offer since they last connected
    rvPending,      \* SpecReceiver: ChunkReceiver.pendingModels, the entry of the one model or NoPending
    tornDown,       \* SpecTeardown: history, disconnect() has been called
    rvSeen,         \* SpecReceiver: history, per receiveChunk call its chunk, the progress around it, what it returned
    tkClients,      \* SpecTracker: the ids of the tracker's clients whose socket is open
    tkModels,       \* SpecTracker: per client, clientInfo.models in insertion order
    tkSwarms,       \* SpecTracker: swarms, per content the members in map order
    tkGone,         \* SpecTracker: history, the ids whose socket has closed
    tkClock,        \* SpecTracker: Date.now()
    tkSent,         \* SpecTracker: what the last handler sent, in order
    tkLast,         \* SpecTracker: history, the last announce when no handler ran since
    rmOpen,         \* SpecRooms: the connections whose socket is open
    rmRooms,        \* SpecRooms: rooms, per infoHash the members in map order
    rmAnnounced,    \* SpecRooms: per connection, announcedInfoHash
    rmClosed,       \* SpecRooms: history, the connections that have closed
    rmJoined,       \* SpecRooms: history, per infoHash who announced it and has not left since
    rmClock,        \* SpecRooms: Date.now()
    rmSent,         \* SpecRooms: what the last handler sent, in order
    rmLast,         \* SpecRooms: history, the message or request the last handler was given
    chIn,           \* SpecRecover: per seeder, the frames in flight to the participant
    chOut,          \* SpecRecover: per seeder, the frames in flight from the participant
    faults,         \* SpecRecover: how many frames have been damaged in flight
    smSwarm,        \* SpecManager: the swarm of the one content the manager holds
    smBits,         \* SpecManager: the peerBitfields the coordinator hands the manager
    smClock,        \* SpecManager: Date.now()
    smAt,           \* SpecManager: history, per requested index the time of its request
    smLast          \* SpecManager: history, the last call, what it was given and returned

vLocal == << sessions, ws, mgr, rcTimer, reconnTimer, clientId, peers, orphans, swarms,
             metadataSentTo, importing, usedIds, now, out, sentCopies >>
vNet == << netIn, netOut, seed >>
vChunker == << artifact, pieces, blob >>
vSignal == << sigWs, sigId, sigPeers, sigTimer, sigAnnounced, sigIn, sigOut, trClients, trSwarms >>
vConn == << cPeers, cPending, cState, cTimer, cSince, cClock, cOut, cInitiator, cRestarted >>
vTracker == << tkClients, tkModels, tkSwarms, tkGone, tkClock, tkSent, tkLast >>
vRooms == << rmOpen, rmRooms, rmAnnounced, rmClosed, rmJoined, rmClock, rmSent, rmLast >>
vRecover == << chIn, chOut, faults >>
vManager == << smSwarm, smBits, smClock, smAt, smLast >>
vReceiver == << rvPending, rvSeen >>
vTeardown == << tornDown >>
vOther == << vConn, vTracker, vRooms, vRecover, vManager, vReceiver, vTeardown >>
vButConn == << vLocal, vNet, vChunker, vSignal, vTracker, vRooms, vRecover, vManager, vReceiver, vTeardown >>
vButTracker == << vLocal, vNet, vChunker, vSignal, vConn, vRooms, vRecover, vManager, vReceiver, vTeardown >>
vButRooms == << vLocal, vNet, vChunker, vSignal, vConn, vTracker, vRecover, vManager, vReceiver, vTeardown >>
vButManager == << vLocal, vNet, vChunker, vSignal, vConn, vTracker, vRooms, vRecover, vReceiver, vTeardown >>
vButReceiver == << vLocal, vNet, vChunker, vSignal, vConn, vTracker, vRooms, vRecover, vManager, vTeardown >>
vButRecover == << vConn, vTracker, vRooms, vChunker, vSignal, vManager, vReceiver, vTeardown >>
vars == << vLocal, vNet, vChunker, vSignal, vOther >>

\* what a handler sent: a frame to a peer, an envelope to "tracker", a callback to "app",
\* a blob to "scene"
Out(type, to, modelId, chunkIndex, payload) ==
    [type |-> type, to |-> to, modelId |-> modelId, chunkIndex |-> chunkIndex,
     payload |-> payload]

PeerIds == {peers[k].id : k \in 1..Len(peers)}
getPeer(peerId) == peers[CHOOSE k \in 1..Len(peers) : peers[k].id = peerId]
HasPeer(peerId) == peerId \in PeerIds
\* peer?.dataChannel && peer.dataChannel.readyState === 'open'
ChannelReady(peerId) == HasPeer(peerId) /\ getPeer(peerId).dc = "open"

NewPeer(peerId, isInitiator, dc) ==
    [id |-> peerId, isInitiator |-> isInitiator, dc |-> dc,
     bitfield |-> [m \in Models |-> NoBitfield]]

RECURSIVE RemovePeer(_, _)
RemovePeer(ps, peerId) ==
    IF ps = << >> THEN << >>
    ELSE IF ps[1].id = peerId THEN RemovePeer(Tail(ps), peerId)
    ELSE << ps[1] >> \o RemovePeer(Tail(ps), peerId)

SetPeer(ps, peerId, rec) == [k \in 1..Len(ps) |-> IF ps[k].id = peerId THEN rec ELSE ps[k]]

\* the bitfields of the peers whose channel is open, in map order
RECURSIVE BitfieldsOf(_, _)
BitfieldsOf(ps, modelId) ==
    IF ps = << >> THEN << >>
    ELSE IF ps[1].dc = "open"
         THEN << [peerId |-> ps[1].id, bitfield |-> ps[1].bitfield[modelId]] >>
              \o BitfieldsOf(Tail(ps), modelId)
         ELSE BitfieldsOf(Tail(ps), modelId)

getPeerBitfields(modelId) == BitfieldsOf(peers, modelId)

announceToTracker(modelId, complete, socket) ==
    IF socket # "open" THEN << >>
    ELSE << Out("announce", "tracker", modelId, Undefined, complete) >>

requestChunk(ps, peerId, modelId, chunkIndex) ==
    IF \E k \in 1..Len(ps) : ps[k].id = peerId /\ ps[k].dc = "open"
    THEN << Out("request", peerId, modelId, chunkIndex, Undefined) >>
    ELSE << >>

sendPiece(ps, peerId, modelId, chunk) ==
    IF \E k \in 1..Len(ps) : ps[k].id = peerId /\ ps[k].dc = "open"
    THEN << Out("piece", peerId, modelId, chunk.index,
                [data |-> arrayBufferToBase64(chunk.data), checksum |-> chunk.checksum]) >>
    ELSE << >>

RECURSIVE broadcastHave(_, _, _)
broadcastHave(ps, modelId, chunkIndex) ==
    IF ps = << >> THEN << >>
    ELSE (IF ps[1].dc = "open"
          THEN << Out("have", ps[1].id, modelId, chunkIndex, Undefined) >>
          ELSE << >>)
         \o broadcastHave(Tail(ps), modelId, chunkIndex)

RECURSIVE MapValues(_)
MapValues(f) ==
    IF DOMAIN f = {} THEN << >>
    ELSE LET k == CHOOSE x \in DOMAIN f : TRUE
         IN  << f[k] >> \o MapValues(MapDel(f, k))

\* the part of handleDownloadComplete before its await: the blob handed to the loader
handleDownloadComplete(swarm, modelId) ==
    IF ~swarm.exists THEN << >>
    ELSE << Out("import", "scene", modelId, Undefined,
                createBlobFromChunks(SortByIndex(MapValues(swarm.receivedChunks)))) >>

\* executeActions: what the actions send, given the peers and the swarm they run against
RECURSIVE executeActions(_, _, _)
executeActions(actions, ps, swarm) ==
    IF actions = << >> THEN << >>
    ELSE LET a == actions[1]
             o == CASE a.type = "request_chunk" ->
                          requestChunk(ps, a.peerId, a.modelId, a.chunkIndex)
                    [] a.type = "send_piece" ->
                          sendPiece(ps, a.peerId, a.modelId, a.payload)
                    [] a.type = "broadcast_have" ->
                          broadcastHave(ps, a.modelId, a.chunkIndex)
                    [] a.type = "download_complete" ->
                          handleDownloadComplete(swarm, a.modelId)
                    [] a.type = "download_progress" ->
                          << Out("onDownloadProgress", "app", a.modelId, Undefined, a.payload) >>
         IN  o \o executeActions(Tail(actions), ps, swarm)

\* the download_complete actions that reach a swarm: each deletes metadataSentTo[modelId]
\* and suspends one handleDownloadComplete at ImportMeshAsync
Completions(actions, swarm) ==
    IF swarm.exists
    THEN Cardinality({k \in 1..Len(actions) : actions[k].type = "download_complete"})
    ELSE 0

\* sendMetadataToPeer against the peers ps and the sets sent; returns the frames it
\* sent and the sets as it leaves them
sendMetadataToPeer(ps, sent, peerId, modelId, metadata, bitfield) ==
    IF ~(\E k \in 1..Len(ps) : ps[k].id = peerId /\ ps[k].dc = "open")
    THEN [outs |-> << >>, sent |-> sent]
    ELSE IF peerId \in sent[modelId]
    THEN [outs |-> << >>, sent |-> sent]
    ELSE [outs |-> << Out("metadata", peerId, modelId, Undefined, metadata),
                      Out("bitfield", peerId, modelId, Undefined, bitfield) >>,
          sent |-> [sent EXCEPT ![modelId] = @ \cup {peerId}]]

\* sendAllMetadata: every swarm with metadata and ownChunks.size === totalChunks
RECURSIVE SendAllLoop(_, _, _, _, _)
SendAllLoop(todo, ps, sent, sw, peerId) ==
    IF todo = {} THEN [outs |-> << >>, sent |-> sent]
    ELSE LET m    == CHOOSE x \in todo : TRUE
             one  == IF sw[m].exists /\ Cardinality(sw[m].ownChunks) = sw[m].totalChunks
                     THEN sendMetadataToPeer(ps, sent, peerId, m, sw[m].metadata,
                              createBitfield(sw[m].ownChunks, sw[m].totalChunks))
                     ELSE [outs |-> << >>, sent |-> sent]
             rest == SendAllLoop(todo \ {m}, ps, one.sent, sw, peerId)
         IN  [outs |-> one.outs \o rest.outs, sent |-> rest.sent]

sendAllMetadata(ps, sent, sw, peerId) == SendAllLoop(Models, ps, sent, sw, peerId)

\* the loop of shareModel over getAllPeers()
RECURSIVE ShareLoop(_, _, _, _, _, _)
ShareLoop(k, ps, sent, modelId, metadata, bitfield) ==
    IF k > Len(ps) THEN [outs |-> << >>, sent |-> sent]
    ELSE LET one  == sendMetadataToPeer(ps, sent, ps[k].id, modelId, metadata, bitfield)
             rest == ShareLoop(k + 1, ps, one.sent, modelId, metadata, bitfield)
         IN  [outs |-> one.outs \o rest.outs, sent |-> rest.sent]

\* history of the metadata frames sent per peer record, capped at MaxCopies
CopiesIn(o, peerId, modelId) ==
    Cardinality({k \in 1..Len(o) :
        o[k].type = "metadata" /\ o[k].to = peerId /\ o[k].modelId = modelId})
Counted(base, o) ==
    [p \in Peers |-> [m \in Models |-> Min2(base[p][m] + CopiesIn(o, p, m), MaxCopies)]]
ResetCopies(base, ids) ==
    [p \in Peers |-> [m \in Models |-> IF p \in ids THEN 0 ELSE base[p][m]]]

(***************************************************************************)
(* The initial state: the constructor has called connectToTracker.         *)
(***************************************************************************)
InitLocal ==
    /\ sessions = 0
    /\ ws = "connecting"
    /\ mgr = FALSE
    /\ rcTimer = FALSE
    /\ reconnTimer = FALSE
    /\ clientId = NoPeer
    /\ peers = << >>
    /\ orphans = [p \in Peers |-> "gone"]
    /\ swarms = [m \in Models |-> NoSwarm]
    /\ metadataSentTo = [m \in Models |-> {}]
    /\ importing = [m \in Models |-> 0]
    /\ usedIds = {}
    /\ now = 1
    /\ out = << >>
    /\ sentCopies = [p \in Peers |-> [m \in Models |-> 0]]

InitNet ==
    /\ netIn = << >>
    /\ netOut = << >>
    /\ seed = NoSwarm

Parties == {"a", "b"}
NoBlob == << -1 >>

\* the chunker and the signalling parties before anything is handed to them
InitChunkerIdle ==
    /\ artifact = << >>
    /\ pieces = << >>
    /\ blob = NoBlob

InitSignalIdle ==
    /\ sigWs = [a \in Parties |-> "connecting"]
    /\ sigId = [a \in Parties |-> NoPeer]
    /\ sigPeers = [a \in Parties |-> << >>]
    /\ sigTimer = [a \in Parties |-> FALSE]
    /\ sigAnnounced = [a \in Parties |-> 0]
    /\ sigIn = [a \in Parties |-> << >>]
    /\ sigOut = [a \in Parties |-> << >>]
    /\ trClients = {}
    /\ trSwarms = [m \in Models |-> << >>]

\* SpecConn: the peers the handler already holds at the start, the ones among them whose
\* connection changes state, and the newcomers that are introduced
NoTimer == [kind |-> "none", due |-> 0]
Settled == 1..(MAX_PEERS - CapSlack)
Flaky == 1..FlakyPeers
Strangers == (MAX_PEERS - CapSlack + 1)..(MAX_PEERS + ExtraPeers)
Active == Flaky \cup Strangers

\* a WebRTCHandler that holds no peer
InitConnIdle ==
    /\ cPeers = {}
    /\ cPending = {}
    /\ cState = [p \in Active |-> "none"]
    /\ cTimer = [p \in Active |-> NoTimer]
    /\ cSince = [p \in Active |-> 0]
    /\ cClock = 0
    /\ cOut = << >>
    /\ cInitiator = {}
    /\ cRestarted = {}

\* SpecTracker: the connections the tracker accepts and the contents they announce
Clients == {"c1", "c2"}
ClientOrder == << "c1", "c2" >>
Contents == {"m1", "m2"}
ContentOrder == << "m1", "m2" >>
NoRoom == [exists |-> FALSE, members |-> << >>]
NoAnnounce == [nth |-> 0]

\* the tracker of server/index.js when it starts
InitTrackerIdle ==
    /\ tkClients = {}
    /\ tkModels = [c \in Clients |-> << >>]
    /\ tkSwarms = [m \in Contents |-> NoRoom]
    /\ tkGone = {}
    /\ tkClock = 0
    /\ tkSent = << >>
    /\ tkLast = NoAnnounce

\* SpecRooms: the connections the tracker of signaling-server.ts accepts, each announcing
\* under its own peer id, and the infoHashes they name
Conns == {"k1", "k2"}
InfoHashes == {"h1", "h2"}
HashOrder == << "h1", "h2" >>
NoHash == "null"
NoMessage == [type |-> "none"]

\* the tracker of signaling-server.ts when it starts
InitRoomsIdle ==
    /\ rmOpen = {}
    /\ rmRooms = [h \in InfoHashes |-> NoRoom]
    /\ rmAnnounced = [k \in Conns |-> NoHash]
    /\ rmClosed = {}
    /\ rmJoined = [h \in InfoHashes |-> {}]
    /\ rmClock = 0
    /\ rmSent = << >>
    /\ rmLast = NoMessage

\* no channel to a seeder carries anything
InitRecoverIdle ==
    /\ chIn = [p \in Peers |-> << >>]
    /\ chOut = [p \in Peers |-> << >>]
    /\ faults = 0

\* the manager holds no swarm
NoCall == [op |-> "none"]
NoPending == [package |-> [id |-> NoPeer]]

\* disconnect() has not been called
InitTeardownIdle == tornDown = FALSE

\* a ChunkReceiver with no pending model
InitReceiverIdle ==
    /\ rvPending = NoPending
    /\ rvSeen = << >>

InitManagerIdle ==
    /\ smSwarm = NoSwarm
    /\ smBits = << >>
    /\ smClock = 0
    /\ smAt = EmptyMap
    /\ smLast = NoCall

InitOtherIdle == InitConnIdle /\ InitTrackerIdle /\ InitReceiverIdle /\ InitTeardownIdle /\ InitRoomsIdle /\ InitRecoverIdle /\ InitManagerIdle


(***************************************************************************)
(* The tracker socket: connectToTracker and its callbacks.                 *)
(***************************************************************************)
\* ws.onopen: a new WebRTCHandler and a new SwarmManager replace the old ones
WsOpen ==
    /\ ws = "connecting"
    /\ ws' = "open"
    /\ mgr' = TRUE
    /\ rcTimer' = TRUE
    /\ sessions' = sessions + 1
    /\ orphans' = [p \in Peers |->
                       IF ~HasPeer(p) THEN orphans[p]
                       ELSE IF getPeer(p).dc = "open" THEN "open" ELSE "connecting"]
    /\ peers' = << >>
    /\ swarms' = [m \in Models |-> NoSwarm]
    /\ out' = << >>
    /\ UNCHANGED << reconnTimer, clientId, metadataSentTo, importing, usedIds, now, sentCopies >>

\* ws.onclose
WsClose ==
    /\ ws \in {"connecting", "open", "closing"}
    /\ ws' = "closed"
    /\ reconnTimer' = TRUE
    /\ out' = << >>
    /\ UNCHANGED << sessions, mgr, rcTimer, clientId, peers, orphans, swarms, metadataSentTo,
                    importing, usedIds, now, sentCopies >>

\* the RECONNECT_DELAY timeout: connectToTracker(url)
ReconnectTimer ==
    /\ reconnTimer
    /\ sessions < MaxSessions
    /\ reconnTimer' = FALSE
    /\ ws' = "connecting"
    /\ out' = << >>
    /\ UNCHANGED << sessions, mgr, rcTimer, clientId, peers, orphans, swarms, metadataSentTo,
                    importing, usedIds, now, sentCopies >>

\* the CONNECTION_REQUEST_DELAY timeout
RequestConnectionTimer ==
    /\ rcTimer
    /\ rcTimer' = FALSE
    /\ out' = IF ws = "open"
              THEN << Out("request-connection", "tracker", "", Undefined, Undefined) >>
              ELSE << >>
    /\ UNCHANGED << sessions, ws, mgr, reconnTimer, clientId, peers, orphans, swarms, metadataSentTo,
                    importing, usedIds, now, sentCopies >>

\* handleTrackerMessage: welcome
TrackerWelcome ==
    /\ ws = "open"
    /\ clientId' = Me
    /\ out' = << >>
    /\ UNCHANGED << sessions, ws, mgr, rcTimer, reconnTimer, peers, orphans, swarms, metadataSentTo,
                    importing, usedIds, now, sentCopies >>

(***************************************************************************)
(* webrtc-handler.ts, as the coordinator sees it: a record is made, its    *)
(* channel opens, the peer goes.                                           *)
(***************************************************************************)
\* createPeerConnection as far as the peers map goes: [peers, made]
createPeerConnection(ps, peerId, isInitiator) ==
    IF \E k \in 1..Len(ps) : ps[k].id = peerId THEN [peers |-> ps, made |-> FALSE]
    ELSE IF Len(ps) >= MAX_PEERS THEN [peers |-> ps, made |-> FALSE]
    ELSE [peers |-> Append(ps, NewPeer(peerId, isInitiator,
                                       IF isInitiator THEN "connecting" ELSE "none")),
          made  |-> TRUE]

OfferTo(made, peerId, socket) ==
    IF made /\ socket = "open" THEN << Out("offer", "tracker", "", Undefined, peerId) >> ELSE << >>

\* handleTrackerMessage: request-connection
TrackerRequestConnection(p) ==
    /\ ws = "open"
    /\ LET r == createPeerConnection(peers, p, TRUE)
       IN  /\ peers' = r.peers
           /\ out' = OfferTo(r.made, p, ws)
           /\ sentCopies' = IF r.made THEN ResetCopies(sentCopies, {p}) ELSE sentCopies
    /\ UNCHANGED << sessions, ws, mgr, rcTimer, reconnTimer, clientId, orphans, swarms, metadataSentTo,
                    importing, usedIds, now >>

\* handleSwarmPeers: the peers of the list that are not this client and have no record
RECURSIVE ConnectLoop(_, _, _, _)
ConnectLoop(list, ps, acc, socket) ==
    IF list = << >> THEN [peers |-> ps, outs |-> acc.outs, made |-> acc.made]
    ELSE LET r == createPeerConnection(ps, list[1], TRUE)
         IN  ConnectLoop(Tail(list), r.peers,
                 [outs |-> acc.outs \o OfferTo(r.made, list[1], socket),
                  made |-> IF r.made THEN acc.made \cup {list[1]} ELSE acc.made],
                 socket)

\* self is this.clientId, socket the readyState of the tracker socket
handleSwarmPeers(ps, list, self, socket) ==
    LET fresh == SelectSeq(list, LAMBDA x :
                     x # self /\ ~(\E k \in 1..Len(ps) : ps[k].id = x))
        room  == MAX_PEERS - Len(ps)
    IN  ConnectLoop(SubSeq(fresh, 1, Min2(Len(fresh), Max2(room, 0))), ps,
                    [outs |-> << >>, made |-> {}], socket)

\* handleTrackerMessage: peer-joined-swarm, announce-response
TrackerSwarmPeers(list) ==
    /\ ws = "open"
    /\ list # << >>
    /\ LET r == handleSwarmPeers(peers, list, clientId, ws)
       IN  /\ peers' = r.peers
           /\ out' = r.outs
           /\ sentCopies' = ResetCopies(sentCopies, r.made)
    /\ UNCHANGED << sessions, ws, mgr, rcTimer, reconnTimer, clientId, orphans, swarms, metadataSentTo,
                    importing, usedIds, now >>

\* handleTrackerMessage: offer -> handleOffer
TrackerOffer(p) ==
    /\ ws = "open"
    /\ LET r == createPeerConnection(peers, p, FALSE)
       IN  /\ peers' = r.peers
           /\ out' = IF \E k \in 1..Len(r.peers) : r.peers[k].id = p
                     THEN << Out("answer", "tracker", "", Undefined, p) >>
                     ELSE << >>
           /\ sentCopies' = IF r.made THEN ResetCopies(sentCopies, {p}) ELSE sentCopies
    /\ UNCHANGED << sessions, ws, mgr, rcTimer, reconnTimer, clientId, orphans, swarms, metadataSentTo,
                    importing, usedIds, now >>

\* pc.ondatachannel at the answerer.  setupDataChannel runs before peer.dataChannel is
\* set, so its immediate callback finds no channel; the open event of a channel that
\* arrived open follows in the same task
OnDataChannel(p, readyState) ==
    /\ HasPeer(p)
    /\ ~getPeer(p).isInitiator
    /\ getPeer(p).dc = "none"
    /\ LET first   == IF readyState = "open"
                      THEN sendAllMetadata(peers, metadataSentTo, swarms, p)
                      ELSE [outs |-> << >>, sent |-> metadataSentTo]
           withDc  == SetPeer(peers, p, [getPeer(p) EXCEPT !.dc = readyState])
           second  == IF readyState = "open"
                      THEN sendAllMetadata(withDc, first.sent, swarms, p)
                      ELSE [outs |-> << >>, sent |-> first.sent]
       IN  /\ peers' = withDc
           /\ metadataSentTo' = second.sent
           /\ out' = first.outs \o second.outs
           /\ sentCopies' = Counted(sentCopies, first.outs \o second.outs)
    /\ UNCHANGED << sessions, ws, mgr, rcTimer, reconnTimer, clientId, orphans, swarms,
                    importing, usedIds, now >>

\* channel.onopen -> onDataChannelOpen -> sendAllMetadata
OnChannelOpen(p) ==
    /\ HasPeer(p)
    /\ getPeer(p).dc = "connecting"
    /\ LET opened == SetPeer(peers, p, [getPeer(p) EXCEPT !.dc = "open"])
           r      == sendAllMetadata(opened, metadataSentTo, swarms, p)
       IN  /\ peers' = opened
           /\ metadataSentTo' = r.sent
           /\ out' = r.outs
           /\ sentCopies' = Counted(sentCopies, r.outs)
    /\ UNCHANGED << sessions, ws, mgr, rcTimer, reconnTimer, clientId, orphans, swarms,
                    importing, usedIds, now >>

\* channel.onopen of a channel of a replaced handler: its callback still runs
\* P2PClient.sendAllMetadata, against the current handler's peers
OrphanChannelOpen(p) ==
    /\ orphans[p] = "connecting"
    /\ orphans' = [orphans EXCEPT ![p] = "open"]
    /\ LET r == sendAllMetadata(peers, metadataSentTo, swarms, p)
       IN  /\ metadataSentTo' = r.sent
           /\ out' = r.outs
           /\ sentCopies' = Counted(sentCopies, r.outs)
    /\ UNCHANGED << sessions, ws, mgr, rcTimer, reconnTimer, clientId, peers, swarms,
                    importing, usedIds, now >>

\* handlePeerDisconnect (peer-left-swarm, a closed or timed-out connection, a failed
\* handshake) and the coordinator's onPeerDisconnected
PeerDisconnect(p) ==
    /\ HasPeer(p)
    /\ peers' = RemovePeer(peers, p)
    /\ metadataSentTo' = [m \in Models |-> metadataSentTo[m] \ {p}]
    /\ out' = << Out("onPeerDisconnected", "app", "", Undefined, p) >>
    /\ sentCopies' = ResetCopies(sentCopies, {p})
    /\ UNCHANGED << sessions, ws, mgr, rcTimer, reconnTimer, clientId, orphans, swarms,
                    importing, usedIds, now >>

\* the same in a replaced handler: its onPeerDisconnected still clears metadataSentTo
OrphanDisconnect(p) ==
    /\ orphans[p] # "gone"
    /\ orphans' = [orphans EXCEPT ![p] = "gone"]
    /\ metadataSentTo' = [m \in Models |-> metadataSentTo[m] \ {p}]
    /\ out' = << Out("onPeerDisconnected", "app", "", Undefined, p) >>
    /\ sentCopies' = ResetCopies(sentCopies, {p})
    /\ UNCHANGED << sessions, ws, mgr, rcTimer, reconnTimer, clientId, peers, swarms,
                    importing, usedIds, now >>

(***************************************************************************)
(* handlePeerMessage: the frames of a peer's channel.                      *)
(***************************************************************************)
\* a frame is handled when a channel delivers it: an open channel of a peer record, or
\* a channel of a replaced handler
Delivers(p) == mgr /\ (ChannelReady(p) \/ orphans[p] = "open")

handleBitfield(p, modelId, bitfield) ==
    IF ~HasPeer(p)
    THEN /\ out' = << >>
         /\ UNCHANGED << peers, swarms >>
    ELSE LET stored == SetPeer(peers, p, [getPeer(p) EXCEPT !.bitfield[modelId] = bitfield])
             r      == requestChunksFromPeer(swarms[modelId], p, modelId, bitfield)
         IN  /\ peers' = stored
             /\ swarms' = [swarms EXCEPT ![modelId] = r.swarm]
             /\ out' = executeActions(r.actions, stored, r.swarm)

handleHave(p, modelId, chunkIndex) ==
    /\ out' = << >>
    /\ UNCHANGED swarms
    /\ IF ~HasPeer(p) THEN UNCHANGED peers
       ELSE LET known == getPeer(p).bitfield[modelId]
            IN  IF known = NoBitfield /\ ~swarms[modelId].exists THEN UNCHANGED peers
                ELSE LET bitfield == IF known = NoBitfield
                                     THEN ZeroBytes(CeilDiv(swarms[modelId].totalChunks, 8))
                                     ELSE known
                     IN  peers' = SetPeer(peers, p,
                             [getPeer(p) EXCEPT !.bitfield[modelId] = setBit(bitfield, chunkIndex)])

\* the frames the environment sends
IndexRange == 0..(MaxChunks + IndexSlack - 1)
PieceData == {<< 0, 255 >>}
\* the checksum of the piece and one that is not
Checksums == {calculateChecksum(d) : d \in PieceData \cup {<< 1 >>}}
\* a bitfield frame says the peer has no piece or every piece; have frames fill the rest
BitfieldChoices == {createBitfield({}, MaxChunks), createBitfield(0..(MaxChunks - 1), MaxChunks)}
Packages == {[id |-> m, totalSize |-> MaxChunks * CHUNK_SIZE, totalChunks |-> MaxChunks] :
                m \in Models}
\* the indices within a content of MaxChunks chunks
HaveRange == 0..(MaxChunks - 1)
\* the index the have and request frames of the data plane carry
LastIndex == {MaxChunks - 1}
ShareData == {<< 1, 0, 255 >>}

RecvBitfield(p, modelId, bitfield) ==
    /\ Delivers(p)
    /\ handleBitfield(p, modelId, bitfield)
    /\ UNCHANGED << sessions, ws, mgr, rcTimer, reconnTimer, clientId, orphans, metadataSentTo,
                    importing, usedIds, now, sentCopies >>

RecvHave(p, modelId, chunkIndex) ==
    /\ Delivers(p)
    /\ handleHave(p, modelId, chunkIndex)
    /\ UNCHANGED << sessions, ws, mgr, rcTimer, reconnTimer, clientId, orphans, metadataSentTo,
                    importing, usedIds, now, sentCopies >>

RecvRequest(p, modelId, chunkIndex) ==
    /\ Delivers(p)
    /\ out' = executeActions(
                  handleRequest(swarms[modelId], p, [modelId |-> modelId, chunkIndex |-> chunkIndex]),
                  peers, swarms[modelId])
    /\ UNCHANGED << sessions, ws, mgr, rcTimer, reconnTimer, clientId, peers, orphans, swarms,
                    metadataSentTo, importing, usedIds, now, sentCopies >>

\* frame is [modelId, chunkIndex, data, checksum]
RecvPiece(p, frame) ==
    /\ Delivers(p)
    /\ LET m == frame.modelId
           r == handlePiece(swarms[m], p, frame, getPeerBitfields(m), now)
           c == Completions(r.actions, r.swarm)
       IN  /\ importing[m] + c <= MaxImports
           /\ swarms' = [swarms EXCEPT ![m] = r.swarm]
           /\ out' = executeActions(r.actions, peers, r.swarm)
           /\ metadataSentTo' = IF c > 0 THEN [metadataSentTo EXCEPT ![m] = {}]
                                ELSE metadataSentTo
           /\ importing' = [importing EXCEPT ![m] = @ + c]
    /\ UNCHANGED << sessions, ws, mgr, rcTimer, reconnTimer, clientId, peers, orphans,
                    usedIds, now, sentCopies >>

\* downloadModel that does not ask whether the content has a swarm
downloadModelAgain(modelId, metadata) ==
    LET r == requestMoreChunks(createSwarm(modelId, metadata, << >>, now), modelId,
                               getPeerBitfields(modelId))
    IN  /\ swarms' = [swarms EXCEPT ![modelId] = r.swarm]
        /\ out' = announceToTracker(modelId, FALSE, ws)
                  \o executeActions(r.actions, peers, r.swarm)

\* downloadModel
downloadModel(modelId, metadata) ==
    IF swarms[modelId].exists
    THEN /\ out' = << >>
         /\ UNCHANGED swarms
    ELSE LET r == requestMoreChunks(createSwarm(modelId, metadata, << >>, now), modelId,
                                    getPeerBitfields(modelId))
         IN  /\ swarms' = [swarms EXCEPT ![modelId] = r.swarm]
             /\ out' = announceToTracker(modelId, FALSE, ws)
                       \o executeActions(r.actions, peers, r.swarm)

\* handleMetadata
RecvMetadata(p, package) ==
    /\ Delivers(p)
    /\ downloadModel(package.id, package)
    /\ usedIds' = usedIds \cup {package.id}
    /\ UNCHANGED << sessions, ws, mgr, rcTimer, reconnTimer, clientId, peers, orphans, metadataSentTo,
                    importing, now, sentCopies >>

(***************************************************************************)
(* shareModel, the loader's answer, the clock.                             *)
(***************************************************************************)
\* generateModelId gives an id this session has not seen
ShareModel(modelData) ==
    /\ mgr
    /\ \E m \in Models \ usedIds :
        LET prepared == prepareModel(m, modelData)
            swarm    == createSwarm(m, prepared.package, prepared.chunks, now)
            r        == ShareLoop(1, peers, metadataSentTo, m, prepared.package,
                                  createBitfield(swarm.ownChunks, swarm.totalChunks))
        IN  /\ swarms' = [swarms EXCEPT ![m] = swarm]
            /\ usedIds' = usedIds \cup {m}
            /\ metadataSentTo' = r.sent
            /\ out' = announceToTracker(m, TRUE, ws) \o r.outs
            /\ sentCopies' = Counted(sentCopies, r.outs)
    /\ UNCHANGED << sessions, ws, mgr, rcTimer, reconnTimer, clientId, peers, orphans, importing, now >>

\* handleDownloadComplete after its await: loaded says whether the loader gave meshes
ImportDone(m, loaded) ==
    /\ importing[m] > 0
    /\ importing' = [importing EXCEPT ![m] = @ - 1]
    /\ out' = (IF loaded THEN << Out("onModelReceived", "app", m, Undefined, Undefined) >>
               ELSE << >>)
              \o announceToTracker(m, TRUE, ws)
    /\ UNCHANGED << sessions, ws, mgr, rcTimer, reconnTimer, clientId, peers, orphans, swarms,
                    metadataSentTo, usedIds, now, sentCopies >>

Tick ==
    /\ now < 1 + MaxTicks * TickMs
    /\ now' = now + TickMs
    /\ out' = << >>
    /\ UNCHANGED << sessions, ws, mgr, rcTimer, reconnTimer, clientId, peers, orphans, swarms,
                    metadataSentTo, importing, usedIds, sentCopies >>

\* the participant once the tracker socket is open and welcome has arrived
InitOnline ==
    /\ sessions = 1
    /\ ws = "open"
    /\ mgr = TRUE
    /\ rcTimer = FALSE
    /\ reconnTimer = FALSE
    /\ clientId = Me
    /\ peers = << >>
    /\ orphans = [p \in Peers |-> "gone"]
    /\ swarms = [m \in Models |-> NoSwarm]
    /\ metadataSentTo = [m \in Models |-> {}]
    /\ importing = [m \in Models |-> 0]
    /\ usedIds = {}
    /\ now = 1
    /\ out = << >>
    /\ sentCopies = [p \in Peers |-> [m \in Models |-> 0]]

(***************************************************************************)
(* Spec: the data plane.  Peers come and go, their channels carry any      *)
(* frame, artifacts are shared, the clock runs.                            *)
(***************************************************************************)
NextData ==
    \/ \E p \in Peers : TrackerRequestConnection(p) /\ UNCHANGED << vNet, vChunker, vSignal, vOther >>
    \/ \E p \in Peers : OnChannelOpen(p) /\ UNCHANGED << vNet, vChunker, vSignal, vOther >>
    \/ \E p \in Peers : PeerDisconnect(p) /\ UNCHANGED << vNet, vChunker, vSignal, vOther >>
    \/ \E p \in Peers, m \in Models, b \in BitfieldChoices : RecvBitfield(p, m, b) /\ UNCHANGED << vNet, vChunker, vSignal, vOther >>
    \/ \E p \in Peers, m \in Models, i \in LastIndex : RecvHave(p, m, i) /\ UNCHANGED << vNet, vChunker, vSignal, vOther >>
    \/ \E p \in Peers, m \in Models, i \in LastIndex : RecvRequest(p, m, i) /\ UNCHANGED << vNet, vChunker, vSignal, vOther >>
    \/ \E p \in Peers, m \in Models, i \in IndexRange, d \in PieceData, c \in Checksums :
           RecvPiece(p, [modelId |-> m, chunkIndex |-> i,
                         data |-> arrayBufferToBase64(d), checksum |-> c]) /\ UNCHANGED << vNet, vChunker, vSignal, vOther >>
    \/ \E p \in Peers, pkg \in Packages : RecvMetadata(p, pkg) /\ UNCHANGED << vNet, vChunker, vSignal, vOther >>
    \/ \E d \in ShareData : ShareModel(d) /\ UNCHANGED << vNet, vChunker, vSignal, vOther >>
    \/ \E m \in Models, loaded \in BOOLEAN : ImportDone(m, loaded) /\ UNCHANGED << vNet, vChunker, vSignal, vOther >>
    \/ Tick /\ UNCHANGED << vNet, vChunker, vSignal, vOther >>

Init == InitOnline /\ InitNet /\ InitChunkerIdle /\ InitSignalIdle /\ InitOtherIdle
Spec == Init /\ [][NextData]_vars


(***************************************************************************)
(* SpecSession: the tracker socket drops and reopens while a peer connects *)
(* as initiator or answerer, artifacts are shared and downloaded.          *)
(***************************************************************************)
SessionPeers == {"p1"}
\* the peer lists of announce-response and peer-joined-swarm
SessionLists == {<< p >> : p \in SessionPeers} \cup {<< Me, p >> : p \in SessionPeers}
\* pieces as a seeder of the content cuts them
ValidPieces == {[modelId |-> m, chunkIndex |-> i,
                 data |-> arrayBufferToBase64(d), checksum |-> calculateChecksum(d)] :
                   m \in Models, i \in HaveRange, d \in PieceData}

NextSession ==
    \/ WsOpen /\ UNCHANGED << vNet, vChunker, vSignal, vOther >>
    \/ WsClose /\ UNCHANGED << vNet, vChunker, vSignal, vOther >>
    \/ ReconnectTimer /\ UNCHANGED << vNet, vChunker, vSignal, vOther >>
    \/ RequestConnectionTimer /\ UNCHANGED << vNet, vChunker, vSignal, vOther >>
    \/ TrackerWelcome /\ UNCHANGED << vNet, vChunker, vSignal, vOther >>
    \/ \E p \in SessionPeers : TrackerRequestConnection(p) /\ UNCHANGED << vNet, vChunker, vSignal, vOther >>
    \/ \E list \in SessionLists : TrackerSwarmPeers(list) /\ UNCHANGED << vNet, vChunker, vSignal, vOther >>
    \/ \E p \in SessionPeers : TrackerOffer(p) /\ UNCHANGED << vNet, vChunker, vSignal, vOther >>
    \/ \E p \in SessionPeers, readyState \in {"connecting", "open"} : OnDataChannel(p, readyState) /\ UNCHANGED << vNet, vChunker, vSignal, vOther >>
    \/ \E p \in SessionPeers : OnChannelOpen(p) /\ UNCHANGED << vNet, vChunker, vSignal, vOther >>
    \/ \E p \in SessionPeers : OrphanChannelOpen(p) /\ UNCHANGED << vNet, vChunker, vSignal, vOther >>
    \/ \E p \in SessionPeers : PeerDisconnect(p) /\ UNCHANGED << vNet, vChunker, vSignal, vOther >>
    \/ \E p \in SessionPeers : OrphanDisconnect(p) /\ UNCHANGED << vNet, vChunker, vSignal, vOther >>
    \/ \E p \in SessionPeers, pkg \in Packages : RecvMetadata(p, pkg) /\ UNCHANGED << vNet, vChunker, vSignal, vOther >>
    \/ \E p \in SessionPeers, frame \in ValidPieces : RecvPiece(p, frame) /\ UNCHANGED << vNet, vChunker, vSignal, vOther >>
    \/ \E d \in ShareData : ShareModel(d) /\ UNCHANGED << vNet, vChunker, vSignal, vOther >>
    \/ \E m \in Models, loaded \in BOOLEAN : ImportDone(m, loaded) /\ UNCHANGED << vNet, vChunker, vSignal, vOther >>

InitSession == InitLocal /\ InitNet /\ InitChunkerIdle /\ InitSignalIdle /\ InitOtherIdle
SpecSession == InitSession /\ [][NextSession]_vars

(***************************************************************************)
(* SpecTeardown: a session in which the application shares an artifact,    *)
(* the empty one included, and may call disconnect().                      *)
(***************************************************************************)
\* the artifacts the application shares: one of bytes and the one of no byte
TeardownData == ShareData \cup {<< >>}

\* WebRTCHandler.disconnectAll: every channel and connection closed, the map cleared
disconnectAll(ps) == << >>

\* P2PClient.disconnect; ws.close() leaves the socket closing until onclose runs
Disconnect ==
    /\ metadataSentTo' = [m \in Models |-> {}]
    /\ peers' = IF mgr THEN disconnectAll(peers) ELSE peers
    /\ ws' = IF ws = "closed" THEN "closed" ELSE "closing"
    /\ out' = << >>
    /\ sentCopies' = ResetCopies(sentCopies, PeerIds)
    /\ UNCHANGED << sessions, mgr, rcTimer, reconnTimer, clientId, orphans, swarms,
                    importing, usedIds, now >>

NextTeardown ==
    \/ WsOpen /\ UNCHANGED << vNet, vChunker, vSignal, vOther >>
    \/ WsClose /\ UNCHANGED << vNet, vChunker, vSignal, vOther >>
    \/ ReconnectTimer /\ UNCHANGED << vNet, vChunker, vSignal, vOther >>
    \/ TrackerWelcome /\ UNCHANGED << vNet, vChunker, vSignal, vOther >>
    \/ \E p \in SessionPeers : TrackerRequestConnection(p) /\ UNCHANGED << vNet, vChunker, vSignal, vOther >>
    \/ \E p \in SessionPeers : OnChannelOpen(p) /\ UNCHANGED << vNet, vChunker, vSignal, vOther >>
    \/ \E p \in SessionPeers : PeerDisconnect(p) /\ UNCHANGED << vNet, vChunker, vSignal, vOther >>
    \/ \E p \in SessionPeers, pkg \in Packages : RecvMetadata(p, pkg) /\ UNCHANGED << vNet, vChunker, vSignal, vOther >>
    \/ \E d \in TeardownData : ShareModel(d) /\ UNCHANGED << vNet, vChunker, vSignal, vOther >>
    \/ Disconnect /\ tornDown' = TRUE
       /\ UNCHANGED << vNet, vChunker, vSignal, vConn, vTracker, vRooms, vRecover, vManager, vReceiver >>

SpecTeardown == InitSession /\ [][NextTeardown]_vars

(***************************************************************************)
(* SpecBudget: one peer and a content of more pieces than a peer's request *)
(* budget.  The peer connects, sends its frames, leaves and comes back.    *)
(***************************************************************************)
BudgetChunks == CHUNKS_PER_REQUEST + BudgetSlack
BudgetPeers == {"p1"}
BudgetPackages == {[id |-> m, totalSize |-> BudgetChunks * CHUNK_SIZE,
                    totalChunks |-> BudgetChunks] : m \in Models}
\* the peer's bitfield frame: it has every piece
BudgetBitfields == {createBitfield(0..(BudgetChunks - 1), BudgetChunks)}
BudgetHaves == {0, BudgetChunks - 1}
BudgetPieces == {[modelId |-> m, chunkIndex |-> i,
                  data |-> arrayBufferToBase64(d), checksum |-> calculateChecksum(d)] :
                    m \in Models, i \in 0..(BudgetChunks - 1), d \in PieceData}

NextBudget ==
    \/ \E p \in BudgetPeers : TrackerRequestConnection(p) /\ UNCHANGED << vNet, vChunker, vSignal, vOther >>
    \/ \E p \in BudgetPeers : OnChannelOpen(p) /\ UNCHANGED << vNet, vChunker, vSignal, vOther >>
    \/ \E p \in BudgetPeers : PeerDisconnect(p) /\ UNCHANGED << vNet, vChunker, vSignal, vOther >>
    \/ \E p \in BudgetPeers, pkg \in BudgetPackages : RecvMetadata(p, pkg) /\ UNCHANGED << vNet, vChunker, vSignal, vOther >>
    \/ \E p \in BudgetPeers, m \in Models, b \in BudgetBitfields : RecvBitfield(p, m, b) /\ UNCHANGED << vNet, vChunker, vSignal, vOther >>
    \/ \E p \in BudgetPeers, m \in Models, i \in BudgetHaves : RecvHave(p, m, i) /\ UNCHANGED << vNet, vChunker, vSignal, vOther >>
    \/ \E p \in BudgetPeers, frame \in BudgetPieces : RecvPiece(p, frame) /\ UNCHANGED << vNet, vChunker, vSignal, vOther >>
    \/ \E m \in Models, loaded \in BOOLEAN : ImportDone(m, loaded) /\ UNCHANGED << vNet, vChunker, vSignal, vOther >>
    \/ Tick /\ UNCHANGED << vNet, vChunker, vSignal, vOther >>

SpecBudget == Init /\ [][NextBudget]_vars

(***************************************************************************)
(* SpecChunker: an artifact is cut into chunks, the chunks are handed on   *)
(* in any order, and the blob is assembled from all of them.               *)
(***************************************************************************)
RECURSIVE ByteStrings(_)
ByteStrings(n) ==
    IF n = 0 THEN {<< >>}
    ELSE {Append(b, x) : b \in ByteStrings(n - 1), x \in Bytes}

\* the non-empty byte strings of at most MaxLen bytes
Artifacts == UNION {ByteStrings(n) : n \in 1..MaxLen}

Swap(seq, k) ==
    [j \in 1..Len(seq) |-> IF j = k THEN seq[k + 1] ELSE IF j = k + 1 THEN seq[k] ELSE seq[j]]

\* prepareModel cuts the artifact
Prepare ==
    /\ pieces = << >>
    /\ pieces' = prepareModel("m1", artifact).chunks
    /\ UNCHANGED << artifact, blob, vLocal, vNet, vSignal, vOther >>

\* the chunks reach the assembler in another order
Reorder(k) ==
    /\ blob = NoBlob
    /\ k \in 1..(Len(pieces) - 1)
    /\ pieces' = Swap(pieces, k)
    /\ UNCHANGED << artifact, blob, vLocal, vNet, vSignal, vOther >>

Assemble ==
    /\ pieces # << >>
    /\ blob = NoBlob
    /\ blob' = createBlobFromChunks(pieces)
    /\ UNCHANGED << artifact, pieces, vLocal, vNet, vSignal, vOther >>

InitChunker ==
    /\ artifact \in Artifacts
    /\ pieces = << >>
    /\ blob = NoBlob
    /\ InitLocal /\ InitNet /\ InitSignalIdle /\ InitOtherIdle

NextChunker ==
    \/ Prepare
    \/ \E k \in 1..MaxLen : Reorder(k)
    \/ Assemble

SpecChunker == InitChunker /\ [][NextChunker]_vars

(***************************************************************************)
(* SpecReceiver: a ChunkReceiver is initialised with the package of a      *)
(* prepared artifact and handed the artifact's chunks in any order, any    *)
(* number of times, some of them damaged on the way.                       *)
(***************************************************************************)
RvData == {<< 1, 0, 255, 0, 1 >>, << 255, 1, 0 >>, << 0, 1 >>}
RvModel == "m1"
Null == [package |-> [id |-> "null"]]

\* ChunkReceiver.getProgress, in whole percent
getProgress(pending) ==
    IF pending = NoPending THEN 0
    ELSE (Len(pending.receivedChunks) * 100) \div pending.totalChunks

\* receivedChunks.has(index)
HasChunk(pending, index) ==
    \E k \in 1..Len(pending.receivedChunks) : pending.receivedChunks[k].index = index

\* ChunkReceiver.finalizeModel: the package with the blob, and the entry deleted
finalizeModel(pending) ==
    [pending  |-> NoPending,
     returned |-> [package |-> pending.package,
                   blob    |-> createBlobFromChunks(pending.receivedChunks)]]

\* receiveChunk that takes the chunk with the last index for the end of the transfer
receiveChunkLastIndex(pending, chunk) ==
    IF pending = NoPending \/ pending.package.id # chunk.modelId
    THEN [pending |-> pending, returned |-> Null]
    ELSE IF ~verifyChunk(chunk) THEN [pending |-> pending, returned |-> Null]
    ELSE IF HasChunk(pending, chunk.index) THEN [pending |-> pending, returned |-> Null]
    ELSE LET stored == [pending EXCEPT !.receivedChunks = Append(@, chunk)]
         IN  IF chunk.index = stored.totalChunks - 1
             THEN finalizeModel(stored)
             ELSE [pending |-> stored, returned |-> Null]

\* ChunkReceiver.receiveChunk: the pendingModels entry after the call and what it returns
receiveChunk(pending, chunk) ==
    IF pending = NoPending \/ pending.package.id # chunk.modelId
    THEN [pending |-> pending, returned |-> Null]
    ELSE IF ~verifyChunk(chunk) THEN [pending |-> pending, returned |-> Null]
    ELSE IF HasChunk(pending, chunk.index) THEN [pending |-> pending, returned |-> Null]
    ELSE LET stored == [pending EXCEPT !.receivedChunks = Append(@, chunk)]
         IN  IF Len(stored.receivedChunks) = stored.totalChunks
             THEN finalizeModel(stored)
             ELSE [pending |-> stored, returned |-> Null]

\* a chunk whose checksum no longer matches its data
Damaged(chunk) == [chunk EXCEPT !.checksum = (@ + 1) % MOD]

\* ChunkReceiver.initializeModel, called before any chunk is handed over
InitializeModel ==
    /\ rvSeen = << >>
    /\ rvPending' = IF rvPending # NoPending THEN rvPending
                    ELSE [package        |-> prepareModel(RvModel, artifact).package,
                          receivedChunks |-> << >>,
                          totalChunks    |-> prepareModel(RvModel, artifact).package.totalChunks]
    /\ UNCHANGED rvSeen

\* one call of receiveChunk with chunk k of the artifact, intact or damaged
ReceiveChunk(k, intact) ==
    /\ Len(rvSeen) < MaxDeliveries
    /\ k \in 1..Len(pieces)
    /\ LET chunk  == IF intact THEN pieces[k] ELSE Damaged(pieces[k])
           result == receiveChunk(rvPending, chunk)
       IN  /\ rvPending' = result.pending
           /\ rvSeen' = Append(rvSeen, [index    |-> chunk.index,
                                        intact   |-> intact,
                                        known    |-> rvPending # NoPending,
                                        before   |-> getProgress(rvPending),
                                        after    |-> getProgress(result.pending),
                                        returned |-> result.returned])

InitReceiver ==
    /\ artifact \in RvData
    /\ pieces = prepareModel(RvModel, artifact).chunks
    /\ blob = NoBlob
    /\ rvPending = NoPending
    /\ rvSeen = << >>
    /\ InitTeardownIdle
    /\ InitLocal /\ InitNet /\ InitSignalIdle
    /\ InitConnIdle /\ InitTrackerIdle /\ InitRoomsIdle /\ InitRecoverIdle /\ InitManagerIdle

NextReceiver ==
    \/ InitializeModel /\ UNCHANGED vButReceiver
    \/ \E k \in 1..MaxLen, intact \in BOOLEAN : ReceiveChunk(k, intact) /\ UNCHANGED vButReceiver

SpecReceiver == InitReceiver /\ [][NextReceiver]_vars

(***************************************************************************)
(* SpecTransfer: the participant downloads a content from one remote       *)
(* seeder over an open channel that loses and reorders nothing.  The       *)
(* seeder has sent its metadata and bitfield frames; it answers requests   *)
(* as handleRequest does.                                                  *)
(***************************************************************************)
Seeder == "p1"
TransferData == {<< 1, 0, 255, 0, 1 >>, << 255, 1, 0 >>}
\* the seeder's peers map: its record of the participant
SeederPeers == << NewPeer(Me, FALSE, "open") >>

\* the frames of o addressed to peer
FramesTo(o, peer) == SelectSeq(o, LAMBDA f : f.to = peer)

InitTransfer ==
    /\ sessions = 1
    /\ ws = "open"
    /\ mgr = TRUE
    /\ rcTimer = FALSE
    /\ reconnTimer = FALSE
    /\ clientId = Me
    /\ peers = << NewPeer(Seeder, TRUE, "open") >>
    /\ orphans = [p \in Peers |-> "gone"]
    /\ swarms = [m \in Models |-> NoSwarm]
    /\ metadataSentTo = [m \in Models |-> {}]
    /\ importing = [m \in Models |-> 0]
    /\ usedIds = {}
    /\ now = 1
    /\ out = << >>
    /\ sentCopies = [p \in Peers |-> [m \in Models |-> 0]]
    /\ InitOtherIdle
    /\ \E d \in TransferData :
        LET prepared == prepareModel("m1", d)
        IN  /\ seed = createSwarm("m1", prepared.package, prepared.chunks, 1)
            /\ netIn = sendMetadataToPeer(SeederPeers, [m \in Models |-> {}], Me, "m1",
                           prepared.package,
                           createBitfield(seed.ownChunks, seed.totalChunks)).outs
    /\ netOut = << >>
    /\ InitChunkerIdle /\ InitSignalIdle

\* the next frame of the seeder's channel is of this type
Pending(type) == netIn # << >> /\ Head(netIn).type = type

\* the frame is consumed; what the handler sent to the seeder is in flight
Forward ==
    /\ netIn' = Tail(netIn)
    /\ netOut' = netOut \o FramesTo(out', Seeder)
    /\ UNCHANGED << seed, vChunker, vSignal, vOther >>

DeliverMetadata ==
    /\ Pending("metadata")
    /\ RecvMetadata(Seeder, Head(netIn).payload)
    /\ Forward

DeliverBitfield ==
    /\ Pending("bitfield")
    /\ RecvBitfield(Seeder, Head(netIn).modelId, Head(netIn).payload)
    /\ Forward

DeliverPiece ==
    /\ Pending("piece")
    /\ RecvPiece(Seeder, [modelId |-> Head(netIn).modelId,
                          chunkIndex |-> Head(netIn).chunkIndex,
                          data |-> Head(netIn).payload.data,
                          checksum |-> Head(netIn).payload.checksum])
    /\ Forward

\* the seeder's handlePeerMessage: a request is answered by handleRequest, a have
\* only marks the seeder's record of the participant
SeederHandles ==
    /\ netOut # << >>
    /\ netOut' = Tail(netOut)
    /\ netIn' = netIn \o
          (IF Head(netOut).type = "request"
           THEN executeActions(handleRequest(seed, Me,
                                   [modelId |-> Head(netOut).modelId,
                                    chunkIndex |-> Head(netOut).chunkIndex]),
                               SeederPeers, seed)
           ELSE << >>)
    /\ UNCHANGED << seed, vLocal, vChunker, vSignal, vOther >>

NextTransfer ==
    \/ DeliverMetadata
    \/ DeliverBitfield
    \/ DeliverPiece
    \/ SeederHandles
    \/ \E m \in Models, loaded \in BOOLEAN : ImportDone(m, loaded) /\ UNCHANGED << vNet, vChunker, vSignal, vOther >>
    \/ Tick /\ UNCHANGED << vNet, vChunker, vSignal, vOther >>

\* DeliverPiece is enabled: a piece frame is next and the handler's guards hold
PieceDeliverable ==
    /\ Pending("piece")
    /\ Delivers(Seeder)
    /\ LET m == Head(netIn).modelId
           r == handlePiece(swarms[m], Seeder,
                            [modelId |-> m, chunkIndex |-> Head(netIn).chunkIndex,
                             data |-> Head(netIn).payload.data,
                             checksum |-> Head(netIn).payload.checksum],
                            getPeerBitfields(m), now)
       IN  importing[m] + Completions(r.actions, r.swarm) <= MaxImports

\* frames in flight are delivered and handled, and the loader answers.  The third
\* conjunct is WF_vars(DeliverPiece) with ENABLED written out as PieceDeliverable.
FairTransfer ==
    /\ WF_vars(DeliverMetadata)
    /\ WF_vars(DeliverBitfield)
    /\ ([]<>(~PieceDeliverable) \/ []<><<DeliverPiece>>_vars)
    /\ WF_vars(SeederHandles)
    /\ WF_vars(\E m \in Models, loaded \in BOOLEAN :
                   ImportDone(m, loaded) /\ UNCHANGED << vNet, vChunker, vSignal, vOther >>)

SpecTransfer == InitTransfer /\ [][NextTransfer]_vars /\ FairTransfer

(***************************************************************************)
(* SpecRecover: the participant downloads a content from two remote        *)
(* seeders that hold it whole.  Each has sent its metadata and bitfield    *)
(* frames and answers requests as handleRequest does.  A piece may be      *)
(* damaged in flight, and one of the seeders may disappear.                *)
(***************************************************************************)
RecoverData == {<< 1, 0, 255 >>, << 1, 0, 255, 0, 1 >>}

PieceOf(frame) ==
    [modelId |-> frame.modelId, chunkIndex |-> frame.chunkIndex,
     data |-> frame.payload.data, checksum |-> frame.payload.checksum]

InitRecover ==
    /\ sessions = 1
    /\ ws = "open"
    /\ mgr = TRUE
    /\ rcTimer = FALSE
    /\ reconnTimer = FALSE
    /\ clientId = Me
    /\ peers = << NewPeer("p1", TRUE, "open"), NewPeer("p2", TRUE, "open") >>
    /\ orphans = [p \in Peers |-> "gone"]
    /\ swarms = [m \in Models |-> NoSwarm]
    /\ metadataSentTo = [m \in Models |-> {}]
    /\ importing = [m \in Models |-> 0]
    /\ usedIds = {}
    /\ now = 1
    /\ out = << >>
    /\ sentCopies = [p \in Peers |-> [m \in Models |-> 0]]
    /\ \E d \in RecoverData :
        LET prepared == prepareModel("m1", d)
        IN  /\ seed = createSwarm("m1", prepared.package, prepared.chunks, 1)
            /\ chIn = [p \in Peers |->
                          sendMetadataToPeer(SeederPeers, [m \in Models |-> {}], Me, "m1",
                              prepared.package,
                              createBitfield(seed.ownChunks, seed.totalChunks)).outs]
    /\ chOut = [p \in Peers |-> << >>]
    /\ faults = 0
    /\ netIn = << >>
    /\ netOut = << >>
    /\ InitChunkerIdle /\ InitSignalIdle /\ InitConnIdle /\ InitTrackerIdle /\ InitReceiverIdle /\ InitTeardownIdle /\ InitRoomsIdle
    /\ InitManagerIdle

\* handlePeerMessage for the next frame of seeder p; what the handler sent goes in flight
RecDeliver(p) ==
    /\ chIn[p] # << >>
    /\ LET f == Head(chIn[p])
       IN  \/ f.type = "metadata" /\ RecvMetadata(p, f.payload)
           \/ f.type = "bitfield" /\ RecvBitfield(p, f.modelId, f.payload)
           \/ f.type = "piece" /\ RecvPiece(p, PieceOf(f))
    /\ chIn' = [chIn EXCEPT ![p] = Tail(@)]
    /\ chOut' = [q \in Peers |-> chOut[q] \o FramesTo(out', q)]
    /\ UNCHANGED << faults, netIn, netOut, seed, vButRecover >>

\* seeder p's handlePeerMessage
SeederAnswers(p) ==
    /\ chOut[p] # << >>
    /\ chOut' = [chOut EXCEPT ![p] = Tail(@)]
    /\ chIn' = [chIn EXCEPT ![p] = @ \o
          (IF Head(chOut[p]).type = "request"
           THEN executeActions(handleRequest(seed, Me,
                                   [modelId |-> Head(chOut[p]).modelId,
                                    chunkIndex |-> Head(chOut[p]).chunkIndex]),
                               SeederPeers, seed)
           ELSE << >>)]
    /\ UNCHANGED << faults, vNet, vLocal, vButRecover >>

\* the next frame of seeder p, a piece, arrives with a checksum that is not its data's
Damage(p) ==
    /\ faults < MaxFaults
    /\ chIn[p] # << >>
    /\ Head(chIn[p]).type = "piece"
    /\ verifyChunk(ChunkOf(PieceOf(Head(chIn[p]))))
    /\ chIn' = [chIn EXCEPT ![p][1].payload.checksum = IF @ = 0 THEN 1 ELSE @ - 1]
    /\ faults' = faults + 1
    /\ UNCHANGED << chOut, vNet, vLocal, vButRecover >>

\* seeder p disappears: handlePeerDisconnect, and its channel carries nothing more
Vanish(p) ==
    /\ Len(peers) = Cardinality(Peers)
    /\ PeerDisconnect(p)
    /\ chIn' = [chIn EXCEPT ![p] = << >>]
    /\ chOut' = [chOut EXCEPT ![p] = << >>]
    /\ UNCHANGED << faults, vNet, vButRecover >>

NextRecover ==
    \/ \E p \in Peers : RecDeliver(p)
    \/ \E p \in Peers : SeederAnswers(p)
    \/ \E p \in Peers : Damage(p)
    \/ \E p \in Peers : Vanish(p)
    \/ \E m \in Models, loaded \in BOOLEAN : ImportDone(m, loaded) /\ UNCHANGED << vNet, vChunker, vSignal, vOther >>
    \/ Tick /\ UNCHANGED << vNet, vChunker, vSignal, vOther >>

\* RecDeliver(p) is enabled
Deliverable(p) ==
    /\ chIn[p] # << >>
    /\ Delivers(p)
    /\ Head(chIn[p]).type = "piece" =>
           LET m == Head(chIn[p]).modelId
               r == handlePiece(swarms[m], p, PieceOf(Head(chIn[p])), getPeerBitfields(m), now)
           IN  importing[m] + Completions(r.actions, r.swarm) <= MaxImports

\* frames in flight are delivered and handled, the loader answers and time passes.  The
\* first conjunct is WF_vars(RecDeliver(p)) with ENABLED written out as Deliverable(p).
FairRecover ==
    /\ \A p \in Peers : ([]<>(~Deliverable(p)) \/ []<><<RecDeliver(p)>>_vars)
    /\ \A p \in Peers : WF_vars(SeederAnswers(p))
    /\ WF_vars(\E m \in Models, loaded \in BOOLEAN :
                   ImportDone(m, loaded) /\ UNCHANGED << vNet, vChunker, vSignal, vOther >>)
    /\ WF_vars(Tick /\ UNCHANGED << vNet, vChunker, vSignal, vOther >>)

SpecRecover == InitRecover /\ [][NextRecover]_vars /\ FairRecover

(***************************************************************************)
(* SpecSignal: two participants and the tracker (server/index.js).  Each   *)
(* party opens its socket, asks for connections after its delay, may       *)
(* announce a content; the tracker relays; each party handles what the     *)
(* tracker sends it, in order.                                             *)
(***************************************************************************)
Msg(type, from, to, modelId, list) ==
    [type |-> type, from |-> from, to |-> to, modelId |-> modelId, peers |-> list]

Send(queues, a, msgs) == [queues EXCEPT ![a] = @ \o msgs]

\* what a party wrote to its tracker socket, as the tracker reads it
RECURSIVE Envelopes(_, _)
Envelopes(o, a) ==
    IF o = << >> THEN << >>
    ELSE (IF o[1].to # "tracker" THEN << >>
          ELSE IF o[1].type = "announce"
               THEN << Msg("announce", a, "", o[1].modelId, << >>) >>
               ELSE << Msg(o[1].type, a, o[1].payload, "", << >>) >>)
         \o Envelopes(Tail(o), a)

\* wss.on('connection'): the client is registered and welcomed
TrackerConnection(a) ==
    /\ sigWs[a] = "connecting"
    /\ a \notin trClients
    /\ trClients' = trClients \cup {a}
    /\ sigIn' = Send(sigIn, a, << Msg("welcome", "", a, "", << >>) >>)
    /\ UNCHANGED << sigWs, sigId, sigPeers, sigTimer, sigAnnounced, sigOut, trSwarms,
                    vLocal, vNet, vChunker, vOther >>

\* ws.onopen at the party
PartyOpen(a) ==
    /\ sigWs[a] = "connecting"
    /\ a \in trClients
    /\ sigWs' = [sigWs EXCEPT ![a] = "open"]
    /\ sigPeers' = [sigPeers EXCEPT ![a] = << >>]
    /\ sigTimer' = [sigTimer EXCEPT ![a] = TRUE]
    /\ UNCHANGED << sigId, sigAnnounced, sigIn, sigOut, trClients, trSwarms,
                    vLocal, vNet, vChunker, vOther >>

\* the CONNECTION_REQUEST_DELAY timeout at the party
PartyTimer(a) ==
    /\ sigTimer[a]
    /\ sigTimer' = [sigTimer EXCEPT ![a] = FALSE]
    /\ sigOut' = IF sigWs[a] = "open"
                 THEN Send(sigOut, a, << Msg("request-connection", a, "", "", << >>) >>)
                 ELSE sigOut
    /\ UNCHANGED << sigWs, sigId, sigPeers, sigAnnounced, sigIn, trClients, trSwarms,
                    vLocal, vNet, vChunker, vOther >>

\* announceToTracker, from shareModel, downloadModel or handleDownloadComplete
PartyAnnounce(a, m, complete) ==
    /\ sigWs[a] = "open"
    /\ sigAnnounced[a] < MaxAnnounces
    /\ sigAnnounced' = [sigAnnounced EXCEPT ![a] = @ + 1]
    /\ sigOut' = Send(sigOut, a, Envelopes(announceToTracker(m, complete, sigWs[a]), a))
    /\ UNCHANGED << sigWs, sigId, sigPeers, sigTimer, sigIn, trClients, trSwarms,
                    vLocal, vNet, vChunker, vOther >>

\* handleConnectionRequest: to every other open client
handleConnectionRequest(queues, a) ==
    [c \in Parties |->
        IF c \in trClients /\ c # a
        THEN Append(queues[c], Msg("request-connection", a, c, "", << >>))
        ELSE queues[c]]

\* handleAnnounce: the swarm as it leaves it, and the queues with the announce-response
\* and the peer-joined-swarm messages
handleAnnounce(queues, a, m) ==
    LET swarm == IF \E k \in 1..Len(trSwarms[m]) : trSwarms[m][k] = a
                 THEN trSwarms[m] ELSE Append(trSwarms[m], a)
    IN  [swarm  |-> swarm,
         queues |-> [c \in Parties |->
             IF c = a THEN Append(queues[c], Msg("announce-response", "", c, m, swarm))
             ELSE IF c \in trClients /\ (\E k \in 1..Len(swarm) : swarm[k] = c)
                  THEN Append(queues[c], Msg("peer-joined-swarm", a, c, m, swarm))
                  ELSE queues[c]]]

\* handleSignaling: forwarded to its target with the sender's id
handleSignaling(queues, a, msg) ==
    IF msg.to \in trClients
    THEN Send(queues, msg.to, << Msg(msg.type, a, msg.to, "", << >>) >>)
    ELSE queues

\* ws.on('message') at the tracker
TrackerMessage(a) ==
    /\ a \in trClients
    /\ sigOut[a] # << >>
    /\ sigOut' = [sigOut EXCEPT ![a] = Tail(@)]
    /\ LET msg == Head(sigOut[a])
       IN  CASE msg.type = "request-connection" ->
                    /\ sigIn' = handleConnectionRequest(sigIn, a)
                    /\ UNCHANGED trSwarms
             [] msg.type = "announce" ->
                    /\ sigIn' = handleAnnounce(sigIn, a, msg.modelId).queues
                    /\ trSwarms' = [trSwarms EXCEPT ![msg.modelId] =
                                        handleAnnounce(sigIn, a, msg.modelId).swarm]
             [] OTHER ->
                    /\ sigIn' = handleSignaling(sigIn, a, msg)
                    /\ UNCHANGED trSwarms
    /\ UNCHANGED << sigWs, sigId, sigPeers, sigTimer, sigAnnounced, trClients,
                    vLocal, vNet, vChunker, vOther >>

HasInitiatorRecord(ps, peerId) ==
    \E k \in 1..Len(ps) : ps[k].id = peerId /\ ps[k].isInitiator

\* handleOffer: the record is found or made; setRemoteDescription(offer) on a record
\* that has sent its own offer is accepted or throws, as the browser has it, and a
\* throw ends in handlePeerDisconnect
handleOffer(ps, peerId, accepted, socket) ==
    LET r == createPeerConnection(ps, peerId, FALSE)
    IN  IF ~(\E k \in 1..Len(r.peers) : r.peers[k].id = peerId)
        THEN [peers |-> r.peers, outs |-> << >>]
        ELSE IF HasInitiatorRecord(ps, peerId) /\ ~accepted
        THEN [peers |-> RemovePeer(r.peers, peerId), outs |-> << >>]
        ELSE [peers |-> r.peers,
              outs  |-> IF socket = "open"
                        THEN << Out("answer", "tracker", "", Undefined, peerId) >>
                        ELSE << >>]

\* handleAnswer: setRemoteDescription(answer) throws on a record that sent no offer
handleAnswer(ps, peerId) ==
    IF (\E k \in 1..Len(ps) : ps[k].id = peerId) /\ ~HasInitiatorRecord(ps, peerId)
    THEN RemovePeer(ps, peerId)
    ELSE ps

\* ws.onmessage at the party -> handleTrackerMessage
PartyMessage(a, accepted) ==
    /\ sigWs[a] = "open"
    /\ sigIn[a] # << >>
    /\ sigIn' = [sigIn EXCEPT ![a] = Tail(@)]
    /\ LET msg == Head(sigIn[a])
           ps  == sigPeers[a]
       IN  /\ accepted \/ (msg.type = "offer" /\ HasInitiatorRecord(ps, msg.from))
           /\ CASE msg.type = "welcome" ->
                    /\ sigId' = [sigId EXCEPT ![a] = msg.to]
                    /\ UNCHANGED << sigPeers, sigOut >>
             [] msg.type = "request-connection" ->
                    LET r == createPeerConnection(ps, msg.from, TRUE)
                    IN  /\ sigPeers' = [sigPeers EXCEPT ![a] = r.peers]
                        /\ sigOut' = Send(sigOut, a,
                                          Envelopes(OfferTo(r.made, msg.from, sigWs[a]), a))
                        /\ UNCHANGED sigId
             [] msg.type \in {"announce-response", "peer-joined-swarm"} ->
                    LET r == handleSwarmPeers(ps, msg.peers, sigId[a], sigWs[a])
                    IN  /\ sigPeers' = [sigPeers EXCEPT ![a] = r.peers]
                        /\ sigOut' = Send(sigOut, a, Envelopes(r.outs, a))
                        /\ UNCHANGED sigId
             [] msg.type = "offer" ->
                    LET r == handleOffer(ps, msg.from, accepted, sigWs[a])
                    IN  /\ sigPeers' = [sigPeers EXCEPT ![a] = r.peers]
                        /\ sigOut' = Send(sigOut, a, Envelopes(r.outs, a))
                        /\ UNCHANGED sigId
             [] msg.type = "answer" ->
                    /\ sigPeers' = [sigPeers EXCEPT ![a] = handleAnswer(ps, msg.from)]
                    /\ UNCHANGED << sigId, sigOut >>
    /\ UNCHANGED << sigWs, sigTimer, sigAnnounced, trClients, trSwarms,
                    vLocal, vNet, vChunker, vOther >>

InitSignal == InitSignalIdle /\ InitLocal /\ InitNet /\ InitChunkerIdle /\ InitOtherIdle

NextSignal ==
    \/ \E a \in Parties : TrackerConnection(a)
    \/ \E a \in Parties : PartyOpen(a)
    \/ \E a \in Parties : PartyTimer(a)
    \/ \E a \in Parties, m \in Models, complete \in BOOLEAN : PartyAnnounce(a, m, complete)
    \/ \E a \in Parties : TrackerMessage(a)
    \/ \E a \in Parties, accepted \in BOOLEAN : PartyMessage(a, accepted)

SpecSignal == InitSignal /\ [][NextSignal]_vars

(***************************************************************************)
(* SpecConn: the peer map of one WebRTCHandler whose socket is open.  A    *)
(* createPeerConnection of an initiator is suspended at createOffer and    *)
(* setLocalDescription, and handleTrackerMessage is not awaited, so other  *)
(* handlers run between its capacity test and its peers.set.               *)
(***************************************************************************)
Note(kind, p) == [kind |-> kind, peer |-> p]
ConnStates == {"connected", "disconnected", "failed"}

\* WebRTCHandler.handlePeerDisconnect
DropPeer(p) ==
    /\ cTimer' = [cTimer EXCEPT ![p] = NoTimer]
    /\ cInitiator' = cInitiator \ {p}
    /\ cRestarted' = cRestarted \ {p}
    /\ IF p \in cPeers
       THEN /\ cPeers' = cPeers \ {p}
            /\ cState' = [cState EXCEPT ![p] = "none"]
            /\ cSince' = [cSince EXCEPT ![p] = 0]
            /\ cOut' = << Note("onPeerDisconnected", p) >>
       ELSE /\ cOut' = << >>
            /\ UNCHANGED << cPeers, cState, cSince >>

\* createPeerConnection(p, true) up to its first await: the early returns, the new
\* RTCPeerConnection and its data channel; one suspended call per peer is followed
CreateOffer(p) ==
    /\ p \notin cPeers
    /\ p \notin cPending
    /\ IF Cardinality(cPeers) >= MAX_PEERS
       THEN /\ cOut' = << Note("refused", p) >>
            /\ UNCHANGED << cPeers, cPending, cState, cTimer, cSince, cClock >>
       ELSE /\ cPending' = cPending \cup {p}
            /\ cState' = [cState EXCEPT ![p] = "new"]
            /\ cSince' = [cSince EXCEPT ![p] = cClock]
            /\ cOut' = << >>
            /\ UNCHANGED << cPeers, cTimer, cClock >>
    /\ UNCHANGED << cInitiator, cRestarted >>

\* createPeerConnection(p, true) resumed: the offer is sent and the peer is stored
OfferCreated(p) ==
    /\ p \in cPending
    /\ cPending' = cPending \ {p}
    /\ cPeers' = cPeers \cup {p}
    /\ cOut' = << Note("offer", p) >>
    /\ cInitiator' = cInitiator \cup {p}
    /\ UNCHANGED << cState, cTimer, cSince, cClock, cRestarted >>

\* createPeerConnection(p, true) resumed in its catch: handlePeerDisconnect, return null
OfferFailed(p) ==
    /\ p \in cPending
    /\ cPending' = cPending \ {p}
    /\ IF p \in cPeers
       THEN DropPeer(p)
       ELSE /\ cTimer' = [cTimer EXCEPT ![p] = NoTimer]
            /\ cState' = [cState EXCEPT ![p] = "none"]
            /\ cSince' = [cSince EXCEPT ![p] = 0]
            /\ cOut' = << >>
            /\ UNCHANGED << cPeers, cInitiator, cRestarted >>
    /\ UNCHANGED cClock

\* handleOffer: createPeerConnection(p, false) stores the peer before any await; a call
\* for the same peer may be suspended at createOffer meanwhile
OfferArrives(p) ==
    /\ p \notin cPeers
    /\ IF Cardinality(cPeers) >= MAX_PEERS
       THEN /\ cOut' = << Note("refused", p) >>
            /\ UNCHANGED << cPeers, cPending, cState, cTimer, cSince, cClock >>
       ELSE /\ cPeers' = cPeers \cup {p}
            /\ cState' = [cState EXCEPT ![p] = "new"]
            /\ cSince' = [cSince EXCEPT ![p] = cClock]
            /\ cOut' = << Note("answer", p) >>
            /\ UNCHANGED << cPending, cTimer, cClock >>
    /\ UNCHANGED << cInitiator, cRestarted >>

\* pc.onconnectionstatechange with pc.connectionState = s
onconnectionstatechange(p, s) ==
    /\ p \in cPeers
    /\ cState[p] # s
    /\ IF s = "closed"
       THEN DropPeer(p)
       ELSE /\ cState' = [cState EXCEPT ![p] = s]
            /\ cSince' = [cSince EXCEPT ![p] = cClock]
            /\ cTimer' = [cTimer EXCEPT ![p] =
                   CASE s = "disconnected" -> [kind |-> s, due |-> cClock + DISCONNECT_GRACE_PERIOD]
                     [] s = "failed" -> [kind |-> s, due |-> cClock + ICE_RESTART_GRACE_PERIOD]
                     [] OTHER -> NoTimer]
            /\ cOut' = IF s = "connected" THEN << Note("onPeerConnected", p) >> ELSE << >>
            /\ cRestarted' = IF s = "connected" THEN cRestarted \ {p} ELSE cRestarted
            /\ UNCHANGED << cPeers, cInitiator >>
    /\ UNCHANGED << cPending, cClock >>

\* the callback of the timeout that onconnectionstatechange set
DisconnectTimeout(p) ==
    /\ cTimer[p] # NoTimer
    /\ cClock >= cTimer[p].due
    /\ IF \/ cTimer[p].kind = "disconnected" /\ cState[p] \in {"disconnected", "failed"}
          \/ cTimer[p].kind = "failed" /\ cState[p] = "failed"
       THEN DropPeer(p)
       ELSE /\ cTimer' = [cTimer EXCEPT ![p] = NoTimer]
            /\ cOut' = << >>
            /\ UNCHANGED << cPeers, cState, cSince, cInitiator, cRestarted >>
    /\ UNCHANGED << cPending, cClock >>

\* pc.oniceconnectionstatechange with pc.iceConnectionState = "failed"; open is whether
\* the tracker socket is OPEN
oniceconnectionstatechange(p, open) ==
    /\ p \in cPeers
    /\ cState[p] # "failed"
    /\ IF p \in cInitiator /\ open
       THEN /\ cOut' = << Note("iceRestart", p) >>
            /\ cRestarted' = cRestarted \cup {p}
       ELSE /\ cOut' = << >>
            /\ UNCHANGED cRestarted
    /\ UNCHANGED << cPeers, cPending, cState, cTimer, cSince, cClock, cInitiator >>

\* handleTrackerMessage, case peer-left-swarm
PeerLeftSwarm(p) ==
    /\ p \in cPeers
    /\ DropPeer(p)
    /\ UNCHANGED << cPending, cClock >>

ClockStep ==
    /\ cClock < ConnSteps * ConnStepMs
    /\ cClock' = cClock + ConnStepMs
    /\ cOut' = << >>
    /\ UNCHANGED << cPeers, cPending, cState, cTimer, cSince, cInitiator, cRestarted >>

\* a handler that already holds MAX_PEERS - CapSlack connected peers
InitConn ==
    /\ cPeers = Settled
    /\ cPending = {}
    /\ cState = [p \in Active |-> IF p \in Settled THEN "connected" ELSE "none"]
    /\ cTimer = [p \in Active |-> NoTimer]
    /\ cSince = [p \in Active |-> 0]
    /\ cClock = 0
    /\ cOut = << >>
    /\ cInitiator \in {{}, Flaky}
    /\ cRestarted = {}
    /\ InitLocal /\ InitNet /\ InitChunkerIdle /\ InitSignalIdle /\ InitTrackerIdle /\ InitReceiverIdle /\ InitTeardownIdle /\ InitRoomsIdle /\ InitRecoverIdle
    /\ InitManagerIdle

NextConn ==
    \/ \E p \in Strangers : CreateOffer(p) /\ UNCHANGED vButConn
    \/ \E p \in Strangers : OfferCreated(p) /\ UNCHANGED vButConn
    \/ \E p \in Strangers : OfferFailed(p) /\ UNCHANGED vButConn
    \/ \E p \in Strangers : OfferArrives(p) /\ UNCHANGED vButConn
    \/ \E p \in Active, s \in ConnStates : onconnectionstatechange(p, s) /\ UNCHANGED vButConn
    \/ \E p \in Active : DisconnectTimeout(p) /\ UNCHANGED vButConn
    \/ \E p \in Active, open \in BOOLEAN : oniceconnectionstatechange(p, open) /\ UNCHANGED vButConn
    \/ \E p \in Active : PeerLeftSwarm(p) /\ UNCHANGED vButConn
    \/ ClockStep /\ UNCHANGED vButConn

SpecConn == InitConn /\ [][NextConn]_vars

(***************************************************************************)
(* SpecTracker: the tracker of server/index.js.  A client is named by the  *)
(* id the tracker gave it on connection; an id is never given twice.       *)
(***************************************************************************)
\* a set that appends without looking for the key
MapPush(members, rec) == Append(members, rec)

\* Map.prototype.set on a swarm: an existing key keeps its place
MapSet(members, rec) ==
    IF \E i \in 1..Len(members) : members[i].peerId = rec.peerId
    THEN [i \in 1..Len(members) |-> IF members[i].peerId = rec.peerId THEN rec ELSE members[i]]
    ELSE Append(members, rec)

\* Map.prototype.delete on a swarm
MapDelete(members, id) == SelectSeq(members, LAMBDA r : r.peerId # id)

MemberIds(members) == {members[i].peerId : i \in 1..Len(members)}

getSwarmStats(room) ==
    IF ~room.exists
    THEN [seeders |-> 0, leechers |-> 0, peers |-> << >>]
    ELSE [seeders |-> Cardinality({i \in 1..Len(room.members) : room.members[i].complete}),
          leechers |-> Cardinality({i \in 1..Len(room.members) : ~room.members[i].complete}),
          peers |-> [i \in 1..Len(room.members) |->
                        [id |-> room.members[i].peerId, complete |-> room.members[i].complete]]]

\* broadcastToSwarm: msg to every member but excludePeerId whose socket is open
broadcastToSwarm(room, msg, excludePeerId, open) ==
    IF ~room.exists
    THEN << >>
    ELSE LET targets == SelectSeq(room.members,
                                  LAMBDA r : r.peerId # excludePeerId /\ r.peerId \in open)
         IN  [i \in 1..Len(targets) |-> [to |-> targets[i].peerId, msg |-> msg]]

\* the swarms without their lastSeen stamps
Membership(sw) == [m \in Contents |-> getSwarmStats(sw[m]).peers]

\* wss.on('connection')
TkConnection(c) ==
    /\ c \notin tkClients
    /\ c \notin tkGone
    /\ tkClients' = tkClients \cup {c}
    /\ tkModels' = [tkModels EXCEPT ![c] = << >>]
    /\ tkSent' = << [to |-> c, msg |-> [type |-> "welcome", clientId |-> c]] >>
    /\ tkLast' = NoAnnounce
    /\ UNCHANGED << tkSwarms, tkGone, tkClock >>

\* handleAnnounce
TkAnnounce(c, modelId, complete) ==
    LET again == /\ tkLast.nth > 0
                 /\ tkLast.c = c /\ tkLast.modelId = modelId /\ tkLast.complete = complete
        room  == tkSwarms[modelId]
        swarm == MapSet(room.members, [peerId |-> c, complete |-> complete, lastSeen |-> tkClock])
        after == [tkSwarms EXCEPT ![modelId] = [exists |-> TRUE, members |-> swarm]]
        stats == getSwarmStats(after[modelId])
        reply == [type |-> "announce-response", modelId |-> modelId, seeders |-> stats.seeders,
                  leechers |-> stats.leechers, peers |-> stats.peers]
    IN  /\ c \in tkClients
        /\ again => tkLast.nth < MaxRepeats
        /\ tkSwarms' = after
        /\ tkModels' = [tkModels EXCEPT ![c] =
               IF \E i \in 1..Len(@) : @[i] = modelId THEN @ ELSE Append(@, modelId)]
        /\ tkSent' = << [to |-> c, msg |-> reply] >> \o
               broadcastToSwarm(after[modelId],
                                [type |-> "peer-joined-swarm", modelId |-> modelId, peerId |-> c,
                                 complete |-> complete, peers |-> stats.peers], c, tkClients)
        /\ tkLast' = [nth |-> IF again THEN tkLast.nth + 1 ELSE 1, c |-> c, modelId |-> modelId,
                      complete |-> complete, reply |-> reply, rooms |-> Membership(after)]
        /\ UNCHANGED << tkClients, tkGone, tkClock >>

\* handleSignaling: the message, stamped with its sender, goes to the client named by to
\* ws.on('message') that keeps the from the sender wrote when it wrote one
stampFromKeep(parsedMessage, id) ==
    IF parsedMessage.from # NoPeer THEN parsedMessage
    ELSE [parsedMessage EXCEPT !.from = id]

\* ws.on('message'): parsedMessage.from = clientId, before the switch
stampFrom(parsedMessage, id) == [parsedMessage EXCEPT !.from = id]

\* claimed is the from the sender wrote into its message, NoPeer for none
TkSignaling(c, type, to, claimed) ==
    /\ c \in tkClients
    /\ LET message == stampFrom([type |-> type, from |-> claimed, to |-> to], c)
       IN  tkSent' = IF to \in tkClients
                     THEN << [to |-> to, msg |-> message] >>
                     ELSE << >>
    /\ tkLast' = NoAnnounce
    /\ UNCHANGED << tkClients, tkModels, tkSwarms, tkGone, tkClock >>

\* handleConnectionRequest
TkConnectionRequest(c, claimed) ==
    /\ c \in tkClients
    /\ LET message == stampFrom([type |-> "request-connection", from |-> claimed], c)
           others  == SelectSeq(ClientOrder, LAMBDA o : o \in tkClients /\ o # c)
       IN  tkSent' = [i \in 1..Len(others) |->
                         [to |-> others[i], msg |-> [type |-> message.type, from |-> c]]]
    /\ tkLast' = NoAnnounce
    /\ UNCHANGED << tkClients, tkModels, tkSwarms, tkGone, tkClock >>

\* ws.on('close'): the loop over clientInfo.models, from its k-th model on
RECURSIVE closeModels(_, _, _, _, _)
closeModels(sw, sent, c, models, k) ==
    IF k > Len(models)
    THEN [swarms |-> sw, sent |-> sent]
    ELSE LET modelId == models[k]
             room == sw[modelId]
         IN  IF ~room.exists
             THEN closeModels(sw, sent, c, models, k + 1)
             ELSE LET left == [exists |-> TRUE, members |-> MapDelete(room.members, c)]
                      told == broadcastToSwarm(left, [type |-> "peer-left-swarm", modelId |-> modelId,
                                                     peerId |-> c], c, tkClients \ {c})
                  IN  closeModels([sw EXCEPT ![modelId] = IF Len(left.members) = 0 THEN NoRoom ELSE left],
                                  sent \o told, c, models, k + 1)

TkClose(c) ==
    /\ c \in tkClients
    /\ LET r == closeModels(tkSwarms, << >>, c, tkModels[c], 1)
       IN  /\ tkSwarms' = r.swarms
           /\ tkSent' = r.sent
    /\ tkClients' = tkClients \ {c}
    /\ tkGone' = tkGone \cup {c}
    /\ tkLast' = NoAnnounce
    /\ UNCHANGED << tkModels, tkClock >>

\* the stale sweep of one swarm, from its k-th member on: each stale member is deleted and
\* the members left at that moment are told
RECURSIVE sweepSwarm(_, _, _, _)
sweepSwarm(room, sent, modelId, k) ==
    IF k > Len(room.members)
    THEN [room |-> IF Len(room.members) = 0 THEN NoRoom ELSE room, sent |-> sent]
    ELSE LET r == room.members[k]
         IN  IF tkClock - r.lastSeen > STALE_TIMEOUT
             THEN LET left == [exists |-> TRUE, members |-> MapDelete(room.members, r.peerId)]
                  IN  sweepSwarm(left, sent \o broadcastToSwarm(left, [type |-> "peer-left-swarm",
                                     modelId |-> modelId, peerId |-> r.peerId], r.peerId, tkClients),
                                 modelId, k)
             ELSE sweepSwarm(room, sent, modelId, k + 1)

RECURSIVE sweepAll(_, _, _)
sweepAll(sw, sent, k) ==
    IF k > Len(ContentOrder)
    THEN [swarms |-> sw, sent |-> sent]
    ELSE LET modelId == ContentOrder[k]
         IN  IF ~sw[modelId].exists
             THEN sweepAll(sw, sent, k + 1)
             ELSE LET r == sweepSwarm(sw[modelId], sent, modelId, 1)
                  IN  sweepAll([sw EXCEPT ![modelId] = r.room], r.sent, k + 1)

\* the setInterval callback
TkSweep ==
    /\ LET r == sweepAll(tkSwarms, << >>, 1)
       IN  /\ tkSwarms' = r.swarms
           /\ tkSent' = r.sent
    /\ tkLast' = NoAnnounce
    /\ UNCHANGED << tkClients, tkModels, tkGone, tkClock >>

TkClockStep ==
    /\ tkClock < TrackerSteps * TrackerStepMs
    /\ tkClock' = tkClock + TrackerStepMs
    /\ tkSent' = << >>
    /\ UNCHANGED << tkClients, tkModels, tkSwarms, tkGone, tkLast >>

SignalTypes == {"offer", "answer", "ice-candidate"}

InitTracker == InitTrackerIdle /\ InitReceiverIdle /\ InitTeardownIdle /\ InitConnIdle /\ InitRoomsIdle /\ InitRecoverIdle /\ InitManagerIdle /\ InitLocal /\ InitNet /\ InitChunkerIdle /\ InitSignalIdle

\* the senders write no from of their own here; SpecRelay lets them
NextTracker ==
    \/ \E c \in Clients : TkConnection(c) /\ UNCHANGED vButTracker
    \/ \E c \in Clients, m \in Contents, complete \in BOOLEAN : TkAnnounce(c, m, complete) /\ UNCHANGED vButTracker
    \/ \E c \in Clients, type \in SignalTypes, to \in Clients \cup {NoPeer} :
           TkSignaling(c, type, to, NoPeer) /\ UNCHANGED vButTracker
    \/ \E c \in Clients : TkConnectionRequest(c, NoPeer) /\ UNCHANGED vButTracker
    \/ \E c \in Clients : TkClose(c) /\ UNCHANGED vButTracker
    \/ TkSweep /\ UNCHANGED vButTracker
    \/ TkClockStep /\ UNCHANGED vButTracker

SpecTracker == InitTracker /\ [][NextTracker]_vars

\* SpecRelay: the tracker with its clock at rest: clients come, announce, signal and go
NextRelay ==
    \/ \E c \in Clients : TkConnection(c) /\ UNCHANGED vButTracker
    \/ \E c \in Clients, m \in Contents, complete \in BOOLEAN : TkAnnounce(c, m, complete) /\ UNCHANGED vButTracker
    \/ \E c \in Clients, type \in SignalTypes, to \in Clients \cup {NoPeer}, claimed \in Clients \cup {NoPeer} :
           TkSignaling(c, type, to, claimed) /\ UNCHANGED vButTracker
    \/ \E c \in Clients, claimed \in Clients \cup {NoPeer} : TkConnectionRequest(c, claimed) /\ UNCHANGED vButTracker
    \/ \E c \in Clients : TkClose(c) /\ UNCHANGED vButTracker

SpecRelay == InitTracker /\ [][NextRelay]_vars

(***************************************************************************)
(* SpecTrackerEarly: the tracker of server/index.js as its first listing   *)
(* has it (lines 1-400), with clients that connect, signal and close but   *)
(* announce nothing.                                                       *)
(***************************************************************************)
EarlyClients == {"c1", "c2", "c3"}
EarlyOrder == << "c1", "c2", "c3" >>

\* every open client but the one excluded, in map order
OpenButFor(open, exclude) == SelectSeq(EarlyOrder, LAMBDA o : o \in open /\ o # exclude)

EarlyConnection(c) ==
    /\ c \notin tkClients
    /\ c \notin tkGone
    /\ tkClients' = tkClients \cup {c}
    /\ tkSent' = << [to |-> c, msg |-> [type |-> "welcome", clientId |-> c]] >>
    /\ UNCHANGED << tkModels, tkSwarms, tkGone, tkClock, tkLast >>

\* handleSignaling: forwarded to the target when there is one, else to every other
\* open client
EarlySignaling(c, type, to) ==
    /\ c \in tkClients
    /\ tkSent' = IF to # NoPeer
                 THEN IF to \in tkClients
                      THEN << [to |-> to, msg |-> [type |-> type, from |-> c, to |-> to]] >>
                      ELSE << >>
                 ELSE LET others == OpenButFor(tkClients, c)
                      IN  [k \in 1..Len(others) |->
                              [to |-> others[k], msg |-> [type |-> type, from |-> c, to |-> to]]]
    /\ UNCHANGED << tkClients, tkModels, tkSwarms, tkGone, tkClock, tkLast >>

\* the close handler of a client in no swarm: every client left is told
EarlyClose(c) ==
    /\ c \in tkClients
    /\ tkClients' = tkClients \ {c}
    /\ tkGone' = tkGone \cup {c}
    /\ tkSent' = LET others == OpenButFor(tkClients, c)
                 IN  [k \in 1..Len(others) |->
                         [to |-> others[k], msg |-> [type |-> "peer-disconnect", peerId |-> c]]]
    /\ UNCHANGED << tkModels, tkSwarms, tkClock, tkLast >>

NextTrackerEarly ==
    \/ \E c \in EarlyClients : EarlyConnection(c) /\ UNCHANGED vButTracker
    \/ \E c \in EarlyClients, type \in SignalTypes, to \in EarlyClients \cup {NoPeer} :
           EarlySignaling(c, type, to) /\ UNCHANGED vButTracker
    \/ \E c \in EarlyClients : EarlyClose(c) /\ UNCHANGED vButTracker

SpecTrackerEarly == InitTracker /\ [][NextTrackerEarly]_vars

(***************************************************************************)
(* SpecRooms: the tracker of src/signaling-server.ts.  Peer ids are chosen *)
(* by the clients; each connection announces under one id of its own.      *)
(***************************************************************************)
\* Array.from(room.values()).map(r => r.info)
PeerInfos(room) ==
    IF ~room.exists
    THEN << >>
    ELSE [i \in 1..Len(room.members) |->
             [peerId |-> room.members[i].peerId, lastSeen |-> room.members[i].lastSeen]]

InfoIds(infos) == {infos[i].peerId : i \in 1..Len(infos)}

\* broadcastToRoom that leaves no socket out
broadcastToEveryone(room, msg, except, open) ==
    IF ~room.exists
    THEN << >>
    ELSE LET targets == SelectSeq(room.members, LAMBDA r : r.ws \in open)
         IN  [i \in 1..Len(targets) |-> [to |-> targets[i].ws, msg |-> msg]]

\* broadcastToRoom: msg to every member whose socket is open, except one socket
broadcastToRoom(room, msg, except, open) ==
    IF ~room.exists
    THEN << >>
    ELSE LET targets == SelectSeq(room.members, LAMBDA r : r.ws \in open /\ r.ws # except)
         IN  [i \in 1..Len(targets) |-> [to |-> targets[i].ws, msg |-> msg]]

removePeer(room, peerId) ==
    IF ~room.exists
    THEN room
    ELSE LET left == MapDelete(room.members, peerId)
         IN  IF Len(left) = 0 THEN NoRoom ELSE [exists |-> TRUE, members |-> left]

touchPeer(room, peerId, time) ==
    IF ~room.exists
    THEN room
    ELSE [exists |-> TRUE,
          members |-> [i \in 1..Len(room.members) |->
                          IF room.members[i].peerId = peerId
                          THEN [room.members[i] EXCEPT !.lastSeen = time]
                          ELSE room.members[i]]]

\* wss.on("connection")
RmConnection(k) ==
    /\ k \notin rmOpen
    /\ k \notin rmClosed
    /\ rmOpen' = rmOpen \cup {k}
    /\ rmSent' = << >>
    /\ rmLast' = [type |-> "connection", from |-> k]
    /\ UNCHANGED << rmRooms, rmAnnounced, rmClosed, rmJoined, rmClock >>

\* case "announce"
RmAnnounce(k, infoHash) ==
    LET room == [exists |-> TRUE,
                 members |-> MapSet(rmRooms[infoHash].members,
                                    [peerId |-> k, ws |-> k, lastSeen |-> rmClock])]
    IN  /\ k \in rmOpen
        /\ rmAnnounced' = [rmAnnounced EXCEPT ![k] = infoHash]
        /\ rmRooms' = [rmRooms EXCEPT ![infoHash] = room]
        /\ rmSent' = << [to |-> k, msg |-> [type |-> "peers", infoHash |-> infoHash,
                                            peers |-> PeerInfos(room)]] >> \o
               broadcastToRoom(room, [type |-> "peer-joined", peerId |-> k], k, rmOpen)
        /\ rmJoined' = [rmJoined EXCEPT ![infoHash] = @ \cup {k}]
        /\ rmLast' = [type |-> "announce", from |-> k, infoHash |-> infoHash]
        /\ UNCHANGED << rmOpen, rmClosed, rmClock >>

\* case "leave"
RmLeave(k, infoHash) ==
    LET room == removePeer(rmRooms[infoHash], k)
    IN  /\ k \in rmOpen
        /\ rmRooms' = [rmRooms EXCEPT ![infoHash] = room]
        /\ rmSent' = broadcastToRoom(room, [type |-> "peer-left", from |-> k], k, rmOpen)
        /\ rmJoined' = [rmJoined EXCEPT ![infoHash] = @ \ {k}]
        /\ rmLast' = [type |-> "leave", from |-> k, infoHash |-> infoHash]
        /\ UNCHANGED << rmOpen, rmAnnounced, rmClosed, rmClock >>

\* case "get-peers"
RmGetPeers(k, infoHash) ==
    /\ k \in rmOpen
    /\ rmSent' = << [to |-> k, msg |-> [type |-> "peers", infoHash |-> infoHash,
                                        peers |-> PeerInfos(rmRooms[infoHash])]] >>
    /\ rmLast' = [type |-> "get-peers", from |-> k, infoHash |-> infoHash]
    /\ UNCHANGED << rmOpen, rmRooms, rmAnnounced, rmClosed, rmJoined, rmClock >>

\* app.get("/peers")
RmHttpPeers(infoHash) ==
    /\ rmSent' = << [to |-> "http", msg |-> [type |-> "peers", infoHash |-> infoHash,
                                             peers |-> PeerInfos(rmRooms[infoHash])]] >>
    /\ rmLast' = [type |-> "GET /peers", from |-> "http", infoHash |-> infoHash]
    /\ UNCHANGED << rmOpen, rmRooms, rmAnnounced, rmClosed, rmJoined, rmClock >>

\* case "offer", "answer", "ice" with to set
RmSignal(k, type, infoHash, to) ==
    LET target == SelectSeq(rmRooms[infoHash].members, LAMBDA r : r.peerId = to)
    IN  /\ k \in rmOpen
        /\ to # k
        /\ rmRooms' = [rmRooms EXCEPT ![infoHash] = touchPeer(@, k, rmClock)]
        /\ rmSent' = IF to = NoPeer
                     THEN broadcastToRoom(rmRooms[infoHash],
                              [type |-> type, infoHash |-> infoHash, from |-> k], k, rmOpen)
                     ELSE IF Len(target) > 0 /\ target[1].ws \in rmOpen
                     THEN << [to |-> target[1].ws,
                              msg |-> [type |-> type, infoHash |-> infoHash, from |-> k]] >>
                     ELSE << >>
        /\ rmLast' = [type |-> type, from |-> k, infoHash |-> infoHash, to |-> to]
        /\ UNCHANGED << rmOpen, rmAnnounced, rmClosed, rmJoined, rmClock >>

\* ws.on("close")
RmClose(k) ==
    /\ k \in rmOpen
    /\ rmOpen' = rmOpen \ {k}
    /\ rmClosed' = rmClosed \cup {k}
    /\ IF rmAnnounced[k] # NoHash
       THEN LET room == removePeer(rmRooms[rmAnnounced[k]], k)
            IN  /\ rmRooms' = [rmRooms EXCEPT ![rmAnnounced[k]] = room]
                /\ rmSent' = broadcastToRoom(room, [type |-> "peer-left", from |-> k], k, rmOpen \ {k})
       ELSE /\ rmSent' = << >>
            /\ UNCHANGED rmRooms
    /\ rmJoined' = [h \in InfoHashes |-> rmJoined[h] \ {k}]
    /\ rmLast' = [type |-> "close", from |-> k]
    /\ UNCHANGED << rmAnnounced, rmClock >>

\* the stale sweep of one room, from its j-th member on
RECURSIVE sweepRoom(_, _, _)
sweepRoom(room, sent, j) ==
    IF j > Len(room.members)
    THEN [room |-> IF Len(room.members) = 0 THEN NoRoom ELSE room, sent |-> sent]
    ELSE LET r == room.members[j]
         IN  IF rmClock - r.lastSeen > STALE_MS
             THEN LET left == [exists |-> TRUE, members |-> MapDelete(room.members, r.peerId)]
                  IN  sweepRoom(left, sent \o broadcastToRoom(left, [type |-> "peer-left", from |-> r.peerId],
                                                              "none", rmOpen), j)
             ELSE sweepRoom(room, sent, j + 1)

RECURSIVE sweepRooms(_, _, _)
sweepRooms(rooms, sent, j) ==
    IF j > Len(HashOrder)
    THEN [rooms |-> rooms, sent |-> sent]
    ELSE LET h == HashOrder[j]
         IN  IF ~rooms[h].exists
             THEN sweepRooms(rooms, sent, j + 1)
             ELSE LET r == sweepRoom(rooms[h], sent, 1)
                  IN  sweepRooms([rooms EXCEPT ![h] = r.room], r.sent, j + 1)

\* the setInterval callback
RmSweep ==
    /\ LET r == sweepRooms(rmRooms, << >>, 1)
       IN  /\ rmRooms' = r.rooms
           /\ rmSent' = r.sent
           /\ rmJoined' = [h \in InfoHashes |-> rmJoined[h] \ (MemberIds(rmRooms[h].members) \ MemberIds(r.rooms[h].members))]
    /\ rmLast' = [type |-> "sweep", from |-> "timer"]
    /\ UNCHANGED << rmOpen, rmAnnounced, rmClosed, rmClock >>

RmClockStep ==
    /\ rmClock < RoomSteps * RoomStepMs
    /\ rmClock' = rmClock + RoomStepMs
    /\ rmSent' = << >>
    /\ rmLast' = NoMessage
    /\ UNCHANGED << rmOpen, rmRooms, rmAnnounced, rmClosed, rmJoined >>

RoomSignalTypes == {"offer", "answer", "ice"}

InitRooms == InitRoomsIdle /\ InitTrackerIdle /\ InitReceiverIdle /\ InitTeardownIdle /\ InitConnIdle /\ InitRecoverIdle /\ InitManagerIdle /\ InitLocal /\ InitNet /\ InitChunkerIdle /\ InitSignalIdle

NextRooms ==
    \/ \E k \in Conns : RmConnection(k) /\ UNCHANGED vButRooms
    \/ \E k \in Conns, h \in InfoHashes : RmAnnounce(k, h) /\ UNCHANGED vButRooms
    \/ \E k \in Conns, h \in InfoHashes : RmLeave(k, h) /\ UNCHANGED vButRooms
    \/ \E k \in Conns, h \in InfoHashes : RmGetPeers(k, h) /\ UNCHANGED vButRooms
    \/ \E h \in InfoHashes : RmHttpPeers(h) /\ UNCHANGED vButRooms
    \/ \E k \in Conns, type \in RoomSignalTypes, h \in InfoHashes, to \in Conns \cup {NoPeer} : RmSignal(k, type, h, to) /\ UNCHANGED vButRooms
    \/ \E k \in Conns : RmClose(k) /\ UNCHANGED vButRooms
    \/ RmSweep /\ UNCHANGED vButRooms
    \/ RmClockStep /\ UNCHANGED vButRooms

SpecRooms == InitRooms /\ [][NextRooms]_vars

(***************************************************************************)
(* The swarm manager on its own: one leeching swarm of SmChunks pieces,    *)
(* called as the coordinator calls it, with the clock passing between the  *)
(* calls.  smAt and smLast are history: the code keeps neither.            *)
(***************************************************************************)
SmModel == "m1"
SmModels == {"m1", "m2"}
SmPackage == [id |-> SmModel, totalSize |-> SmChunks * CHUNK_SIZE, totalChunks |-> SmChunks]
SmRange == 0..(SmChunks - 1)
\* what the peers say they hold: p1 comes first in the peers map
SmBitfields == {<< [peerId |-> "p1", bitfield |-> createBitfield(a, SmChunks)],
                   [peerId |-> "p2", bitfield |-> b] >> :
                   a \in {{}, {1}, SmRange},
                   b \in {NoBitfield, createBitfield({0, SmChunks - 1}, SmChunks),
                          createBitfield(SmRange, SmChunks)}}
\* pieces as a seeder cuts them, and one whose checksum is of other bytes
SmPieces == {[modelId |-> SmModel, chunkIndex |-> i,
              data |-> arrayBufferToBase64(d), checksum |-> calculateChecksum(c)] :
                i \in SmRange, d \in PieceData, c \in PieceData \cup {<< 1 >>}}

\* who sends the pieces: handlePiece only logs the sender
SmSenders == {"p1"}

\* swarms.get(modelId)
SmGet(modelId) == IF smSwarm.exists /\ smSwarm.modelId = modelId THEN smSwarm ELSE NoSwarm

\* handlePiece's three writes for a verified piece
storePiece(swarm, message) ==
    [swarm EXCEPT !.receivedChunks  = MapPut(@, message.chunkIndex, ChunkOf(message)),
                  !.ownChunks       = @ \cup {message.chunkIndex},
                  !.requestedChunks = MapDel(@, message.chunkIndex)]

\* the request times of the entries of requested: those in kept keep theirs
Stamp(at, kept, requested, clock) ==
    [i \in DOMAIN requested |-> IF i \in kept /\ i \in DOMAIN at THEN at[i] ELSE clock]

\* both peers have an open channel
SmPeers == << NewPeer("p1", TRUE, "open"), NewPeer("p2", TRUE, "open") >>

\* the call and what the coordinator's executeActions sends for the actions it returned
Call(op, peerId, message, actions, after) ==
    [op |-> op, peerId |-> peerId, message |-> message, pre |-> smSwarm, bits |-> smBits,
     clock |-> smClock, at |-> smAt, actions |-> actions,
     sent |-> executeActions(actions, SmPeers, after)]

SmRequestMore ==
    /\ smSwarm.exists
    /\ LET r == requestMoreChunks(smSwarm, SmModel, smBits)
       IN  /\ smSwarm' = r.swarm
           /\ smAt' = Stamp(smAt, DOMAIN smSwarm.requestedChunks, r.swarm.requestedChunks, smClock)
           /\ smLast' = Call("requestMoreChunks", NoPeer, NoMessage, r.actions, r.swarm)
    /\ UNCHANGED << smBits, smClock >>

\* handleBitfield hands over the bitfield the peer sent
SmFromPeer(k) ==
    /\ smSwarm.exists
    /\ smBits[k].bitfield # NoBitfield
    /\ LET r == requestChunksFromPeer(smSwarm, smBits[k].peerId, SmModel, smBits[k].bitfield)
       IN  /\ smSwarm' = r.swarm
           /\ smAt' = Stamp(smAt, DOMAIN smSwarm.requestedChunks, r.swarm.requestedChunks, smClock)
           /\ smLast' = Call("requestChunksFromPeer", smBits[k].peerId, NoMessage, r.actions, r.swarm)
    /\ UNCHANGED << smBits, smClock >>

SmPiece(p, message) ==
    /\ smSwarm.exists
    /\ LET r == handlePiece(smSwarm, p, message, smBits, smClock)
           kept == IF verifyChunk(ChunkOf(message))
                   THEN DOMAIN checkTimeouts(storePiece(smSwarm, message), smClock).requestedChunks
                   ELSE DOMAIN r.swarm.requestedChunks
       IN  /\ smSwarm' = r.swarm
           /\ smAt' = Stamp(smAt, kept, r.swarm.requestedChunks, smClock)
           /\ smLast' = Call("handlePiece", p, message, r.actions, r.swarm)
    /\ UNCHANGED << smBits, smClock >>

SmRequest(p, modelId, chunkIndex) ==
    /\ smLast' = Call("handleRequest", p, [modelId |-> modelId, chunkIndex |-> chunkIndex],
                      handleRequest(SmGet(modelId), p,
                                    [modelId |-> modelId, chunkIndex |-> chunkIndex]),
                      SmGet(modelId))
    /\ UNCHANGED << smSwarm, smBits, smClock, smAt >>

SmClockStep ==
    /\ smClock + SmStepMs <= SmEpoch + SmSteps * SmStepMs
    /\ smClock' = smClock + SmStepMs
    /\ UNCHANGED << smSwarm, smBits, smAt, smLast >>

InitManager ==
    /\ smClock = SmEpoch
    /\ smSwarm = createSwarm(SmModel, SmPackage, << >>, SmEpoch)
    /\ smBits \in SmBitfields
    /\ smAt = EmptyMap
    /\ smLast = NoCall
    /\ InitLocal /\ InitNet /\ InitChunkerIdle /\ InitSignalIdle
    /\ InitConnIdle /\ InitTrackerIdle /\ InitReceiverIdle /\ InitTeardownIdle /\ InitRoomsIdle /\ InitRecoverIdle

NextManager ==
    \/ SmRequestMore /\ UNCHANGED vButManager
    \/ \E k \in 1..2 : SmFromPeer(k) /\ UNCHANGED vButManager
    \/ \E p \in SmSenders, message \in SmPieces : SmPiece(p, message) /\ UNCHANGED vButManager
    \/ \E p \in Peers, m \in SmModels, i \in 0..SmChunks : SmRequest(p, m, i) /\ UNCHANGED vButManager
    \/ SmClockStep /\ UNCHANGED vButManager

SpecManager == InitManager /\ [][NextManager]_vars

(***************************************************************************)
(* Properties of the swarm manager's state.                                *)
(***************************************************************************)
Leeching(m) == swarms[m].exists /\ swarms[m].startTime # Undefined

\* C1: in every reachable state of every swarm no piece index is both owned and
\* requested: ownChunks and the keys of requestedChunks are disjoint
OwnDisjointRequested ==
    \A m \in Models :
        swarms[m].exists =>
            swarms[m].ownChunks \cap DOMAIN swarms[m].requestedChunks = {}

\* a leecher that owns a piece it had requested and has another request in flight
OwnAndRequestedBoth ==
    \E m \in Models :
        /\ Leeching(m)
        /\ swarms[m].ownChunks # {}
        /\ DOMAIN swarms[m].requestedChunks # {}

\* C2: for every swarm, ownChunks is a subset of 0..totalChunks-1, its size is at most
\* totalChunks, the keys of receivedChunks are within ownChunks, and its size equals
\* totalChunks exactly when every index below totalChunks is owned
OwnWithinTotal ==
    \A m \in Models :
        swarms[m].exists =>
            /\ swarms[m].ownChunks \subseteq 0..(swarms[m].totalChunks - 1)
            /\ Cardinality(swarms[m].ownChunks) <= swarms[m].totalChunks
            /\ DOMAIN swarms[m].receivedChunks \subseteq swarms[m].ownChunks
            /\ (Cardinality(swarms[m].ownChunks) = swarms[m].totalChunks
                <=> \A i \in 0..(swarms[m].totalChunks - 1) : i \in swarms[m].ownChunks)

\* C4: every piece stored in receivedChunks of any swarm, seeder or leecher, passes
\* verifyChunk: its checksum is the checksum of its bytes
StoredChunksVerify ==
    \A m \in Models :
        swarms[m].exists =>
            \A i \in DOMAIN swarms[m].receivedChunks : verifyChunk(swarms[m].receivedChunks[i])

\* a leecher has stored a piece that came in a frame
LeecherStoredPiece ==
    \E m \in Models : Leeching(m) /\ DOMAIN swarms[m].receivedChunks # {}

\* C5: a have for index i of a content leaves the participant only when i is in the
\* ownChunks of that content's swarm
HaveOnlyOwned ==
    \A k \in 1..Len(out) :
        out[k].type = "have" =>
            /\ swarms[out[k].modelId].exists
            /\ out[k].chunkIndex \in swarms[out[k].modelId].ownChunks

\* a have frame has just been sent to a peer
HaveSent == \E k \in 1..Len(out) : out[k].type = "have"


(***************************************************************************)
(* Properties of the session with the tracker and of the peers' channels.  *)
(***************************************************************************)
\* C8: when the tracker socket reopens after a drop, every peer record is still
\* registered, every swarm is as it was, and an announce goes out for every swarm
TrackerReconnectKeepsState ==
    [][(ws = "connecting" /\ ws' = "open") =>
          /\ peers' = peers
          /\ swarms' = swarms
          /\ \A m \in Models :
                swarms[m].exists =>
                    \E k \in 1..Len(out') :
                        out'[k].type = "announce" /\ out'[k].modelId = m]_vars

\* C9: between the making of a peer's record and peerDisconnected for that peer, the
\* metadata frame of a content goes to the peer at most once
MetadataOncePerConnection ==
    \A p \in Peers : \A m \in Models : sentCopies[p][m] <= 1


\* C3: for every peer and every swarm, the number of entries of requestedChunks that
\* name the peer is at most CHUNKS_PER_REQUEST
RequestBudget ==
    \A m \in Models : \A p \in Peers :
        swarms[m].exists =>
            PeerRequests(swarms[m].requestedChunks, p) <= CHUNKS_PER_REQUEST


(***************************************************************************)
(* Properties of the chunker.                                              *)
(***************************************************************************)
\* C7: for every non-empty artifact, the blob assembled from all the chunks that
\* prepareModel cut is the artifact, byte for byte, in whatever order the chunks
\* are supplied
ChunkRoundTrip == blob # NoBlob => blob = artifact

\* a blob was assembled from chunks supplied out of index order
AssembledOutOfOrder ==
    /\ blob # NoBlob
    /\ \E k \in 1..(Len(pieces) - 1) : pieces[k].index > pieces[k + 1].index


(***************************************************************************)
(* Properties of the two-peer transfer.                                    *)
(***************************************************************************)
\* the bytes the seeder cut into chunks
SeedBytes == ConcatData(SortByIndex(MapValues(seed.receivedChunks)))

OwnsAll(m) ==
    /\ swarms[m].exists
    /\ \A i \in 0..(swarms[m].totalChunks - 1) : i \in swarms[m].ownChunks

\* the transfer ends: the participant comes to own every piece, with nothing left in
\* flight and no import pending
TransferEnds ==
    <>[](OwnsAll("m1") /\ netIn = << >> /\ netOut = << >> /\ importing["m1"] = 0)

\* the participant announces complete = true
AnnouncesComplete ==
    <>(\E k \in 1..Len(out) :
          out[k].type = "announce" /\ out[k].modelId = "m1" /\ out[k].payload = TRUE)

\* every blob handed to the loader is the seeder's artifact
ImportIsArtifact ==
    \A k \in 1..Len(out) : out[k].type = "import" => out[k].payload = SeedBytes

\* C6: in the two-peer transfer download_complete is acted on exactly when the last
\* missing piece arrives: a step that starts handleDownloadComplete for a content
\* begins in a state where the content's swarm is still missing a piece
CompletesOnLastPiece ==
    [][\A m \in Models :
          importing'[m] > importing[m]
              => (swarms[m].exists
                  /\ Cardinality(swarms[m].ownChunks) < swarms[m].totalChunks)]_vars


(***************************************************************************)
(* Properties of the signalling.                                           *)
(***************************************************************************)
\* C10: of two participants at most one is the initiator toward the other: they never
\* both hold a record of the other that they made as initiator, data channel created
\* and offer sent
OneInitiatorPerPair ==
    \A a \in Parties : \A b \in Parties \ {a} :
        ~(HasInitiatorRecord(sigPeers[a], b) /\ HasInitiatorRecord(sigPeers[b], a))

\* C11: the peer map never holds more than MAX_PEERS peers, however the introductions
\* interleave, and a creation refused at the cap changes neither the peer map nor what is
\* sent to the tracker.
PeersWithinCap ==
    [][/\ Cardinality(cPeers') <= MAX_PEERS
       /\ (\E p \in Strangers : cOut' = << Note("refused", p) >>) =>
              /\ cPeers' = cPeers
              /\ cPending' = cPending]_vars

\* C12: onPeerDisconnected is not published for a peer whose connection is disconnected
\* before DISCONNECT_GRACE_PERIOD has passed in that state, and a connection that comes
\* back to connected keeps its peer record and has no timer left.
GraceBeforeDisconnect ==
    [][\A p \in Active :
          /\ (cState[p] = "disconnected" /\ cOut' = << Note("onPeerDisconnected", p) >>) =>
                 cClock >= cSince[p] + DISCONNECT_GRACE_PERIOD
          /\ (cState[p] = "disconnected" /\ cState'[p] = "connected") =>
                 /\ p \in cPeers'
                 /\ cTimer'[p] = NoTimer
                 /\ cOut' = << Note("onPeerConnected", p) >>]_vars

\* C13: an announce that repeats the one just processed, same participant, content and
\* completeness, leaves every room's membership and the list of the announce-response as
\* the first left them, and only refreshes the participant's lastSeen.
ReannounceIdempotent ==
    [][(tkLast.nth > 0 /\ tkLast'.nth = tkLast.nth + 1) =>
          /\ tkLast'.rooms = tkLast.rooms
          /\ tkLast'.reply = tkLast.reply
          /\ Membership(tkSwarms') = Membership(tkSwarms)
          /\ tkSent'[1].msg.peers = tkLast.reply.peers
          /\ \E i \in 1..Len(tkSwarms'[tkLast.modelId].members) :
                 /\ tkSwarms'[tkLast.modelId].members[i].peerId = tkLast.c
                 /\ tkSwarms'[tkLast.modelId].members[i].lastSeen = tkClock]_vars

\* a participant announced the same content twice in a row, later than the first time, in
\* a room it shares with another participant
AnnouncedTwice ==
    /\ tkLast.nth = 2
    /\ Len(tkLast.reply.peers) >= 2
    /\ \E i \in 1..Len(tkSwarms[tkLast.modelId].members) :
           /\ tkSwarms[tkLast.modelId].members[i].peerId = tkLast.c
           /\ tkSwarms[tkLast.modelId].members[i].lastSeen > 0

\* the tracker of server/index.js keeps no empty swarm and lists no client whose socket
\* has closed
SwarmsHoldOpenClients ==
    \A m \in Contents :
        /\ tkSwarms[m].exists => Len(tkSwarms[m].members) > 0
        /\ MemberIds(tkSwarms[m].members) \cap tkGone = {}

\* C14: in every tracker state no room is empty and no room lists a participant whose
\* connection has closed; a closing participant is removed from every room it was in and
\* the open members that remain in each of them are sent peer-left.
ClosedLeaveEveryRoom ==
    [][/\ \A h \in InfoHashes :
              /\ rmRooms'[h].exists => Len(rmRooms'[h].members) > 0
              /\ MemberIds(rmRooms'[h].members) \cap rmClosed' = {}
       /\ \A k \in rmClosed' \ rmClosed : \A h \in InfoHashes :
              k \in MemberIds(rmRooms[h].members) =>
                  \A o \in (MemberIds(rmRooms[h].members) \cap rmOpen) \ {k} :
                      \E i \in 1..Len(rmSent') :
                          rmSent'[i] = [to |-> o, msg |-> [type |-> "peer-left", from |-> k]]]_vars

\* C15: an offer, answer or ice envelope with to set is sent to the participant it names,
\* and only to it, when that participant has announced and its connection is open, to
\* nobody when it is not, and changes no room's membership.
EnvelopeReachesTarget ==
    [][(rmLast'.type \in RoomSignalTypes /\ rmLast'.to # NoPeer) =>
          /\ IF rmLast'.to \in rmOpen /\ (\E h \in InfoHashes : rmLast'.to \in rmJoined[h])
             THEN /\ Len(rmSent') = 1
                  /\ rmSent'[1].to = rmLast'.to
                  /\ rmSent'[1].msg.type = rmLast'.type
             ELSE rmSent' = << >>
          /\ \A h \in InfoHashes : MemberIds(rmRooms'[h].members) = MemberIds(rmRooms[h].members)]_vars

\* C16: every participant list the tracker returns for an infoHash, in the announce reply,
\* the get-peers reply and GET /peers, names exactly the participants that announced that
\* infoHash and have not left since, and an announce changes no other room.
ListsAreTheRoom ==
    [][/\ rmLast'.type \in {"announce", "get-peers", "GET /peers"} =>
              InfoIds(rmSent'[1].msg.peers) = rmJoined'[rmLast'.infoHash]
       /\ rmLast'.type = "announce" =>
              \A h \in InfoHashes \ {rmLast'.infoHash} : rmRooms'[h] = rmRooms[h]]_vars

\* C17: every progress value handed to onDownloadProgress lies within 0..100 and is not
\* below the share of the content the swarm owned before the piece, which is the value
\* published last: the published values never decrease during a transfer.
ProgressMonotoneInRange ==
    [][\A i \in 1..Len(out') :
          out'[i].type = "onDownloadProgress" =>
              LET v == out'[i].payload
                  before == swarms[out'[i].modelId]
              IN  /\ 0 <= v[1]
                  /\ v[1] <= 100 * v[2]
                  /\ before.exists =>
                         v[1] * before.totalChunks >= Progress(before)[1] * v[2]]_vars

(***************************************************************************)
(* Properties of the transfer from two seeders.                            *)
(***************************************************************************)
\* the next frame of seeder p is a piece that fails verifyChunk
BadPieceNext(p) ==
    /\ chIn[p] # << >>
    /\ Head(chIn[p]).type = "piece"
    /\ ~verifyChunk(ChunkOf(PieceOf(Head(chIn[p]))))

\* C18: when handlePiece is given a piece whose checksum does not match its bytes, the
\* index is added neither to ownChunks nor to receivedChunks, its entry in
\* requestedChunks is removed, and no action is returned: nothing is sent or published.
BadPieceOnlyFreesRequest ==
    [][\A p \in Peers :
          (BadPieceNext(p) /\ HasPeer(p)' /\ chIn'[p] = Tail(chIn[p])) =>
              LET m == Head(chIn[p]).modelId
                  i == Head(chIn[p]).chunkIndex
              IN  /\ swarms[m].exists
                  /\ swarms'[m].ownChunks = swarms[m].ownChunks
                  /\ swarms'[m].receivedChunks = swarms[m].receivedChunks
                  /\ swarms'[m].requestedChunks = MapDel(swarms[m].requestedChunks, i)
                  /\ out' = << >>
                  /\ chOut' = chOut]_vars

\* a damaged piece has been handled: both seeders are there, nothing in flight is
\* damaged, and the index of the damaged piece is neither owned nor requested
BadPieceHandled ==
    /\ faults > 0
    /\ Len(peers) = Cardinality(Peers)
    /\ \A p \in Peers : \A k \in 1..Len(chIn[p]) :
           chIn[p][k].type = "piece" => verifyChunk(ChunkOf(PieceOf(chIn[p][k])))
    /\ Leeching("m1")
    /\ \E i \in 0..(swarms["m1"].totalChunks - 1) :
           i \notin swarms["m1"].ownChunks /\ i \notin DOMAIN swarms["m1"].requestedChunks

\* piece i is wanted, not requested, and an open peer's bitfield has it
Starved(i) ==
    /\ Leeching("m1")
    /\ i < swarms["m1"].totalChunks
    /\ i \notin swarms["m1"].ownChunks
    /\ i \notin DOMAIN swarms["m1"].requestedChunks
    /\ \E k \in 1..Len(peers) : peers[k].dc = "open" /\ hasBit(peers[k].bitfield["m1"], i)

\* C19: a piece that is wanted and no longer requested, as after a failed verification,
\* is requested again while an open peer's bitfield has it.
FailedPieceRequestedAgain ==
    \A i \in 0..(MaxLen \div CHUNK_SIZE) : Starved(i) ~> ~Starved(i)

\* piece i is requested from a peer that is no longer in the peer map
Stranded(i) ==
    /\ Leeching("m1")
    /\ i \in DOMAIN swarms["m1"].requestedChunks
    /\ ~HasPeer(swarms["m1"].requestedChunks[i])

\* C20: when a peer with requests in flight disappears while another seeder stays, each
\* of its requests is cleared and the piece comes from a remaining peer: the piece is
\* owned in the end and the download completes.
StrandedPiecesArrive ==
    /\ \A i \in 0..(MaxLen \div CHUNK_SIZE) :
           Stranded(i) ~> (Leeching("m1") /\ i \in swarms["m1"].ownChunks)
    /\ (\E i \in 0..(MaxLen \div CHUNK_SIZE) : Stranded(i)) ~> OwnsAll("m1")

(***************************************************************************)
(* Properties of the swarm manager called on its own.                      *)
(***************************************************************************)
\* the last call was handlePiece with a piece that verified
StoredAPiece ==
    /\ smLast.op = "handlePiece"
    /\ smLast.pre.exists
    /\ verifyChunk(ChunkOf(smLast.message))

\* the indices checkTimeouts dropped from requestedChunks in the last handlePiece
Released ==
    LET stored == storePiece(smLast.pre, smLast.message)
    IN  DOMAIN stored.requestedChunks \ DOMAIN checkTimeouts(stored, smLast.clock).requestedChunks

\* C21: when handlePiece runs checkTimeouts, an index leaves requestedChunks exactly
\* when its request has been outstanding for more than REQUEST_TIMEOUT: no request
\* younger than that is released and every older one is.
TimeoutReleasesOldOnly ==
    StoredAPiece =>
        \A i \in DOMAIN storePiece(smLast.pre, smLast.message).requestedChunks :
            (i \in Released) <=> (smLast.clock - smLast.at[i] > REQUEST_TIMEOUT)

\* C22: a call of disconnect() leaves no peer in the peers map, the tracker socket
\* closing or closed, and no swarm in the swarm registry.
TeardownLeavesNothing ==
    [][Disconnect =>
          /\ peers' = << >>
          /\ ws' \in {"closing", "closed"}
          /\ \A m \in Models : ~swarms'[m].exists]_vars

\* C23: sharing an artifact of no byte is rejected: the call registers no swarm,
\* announces nothing to the tracker and sends no metadata to any peer.
EmptyArtifactRejected ==
    [][ShareModel(<< >>) => (swarms' = swarms /\ out' = << >>)]_vars

\* the stored pieces are those of indices 0..totalChunks-1, each of the length of its
\* position in an artifact of metadata.totalSize bytes
PiecesComplete(swarm) ==
    /\ DOMAIN swarm.receivedChunks = 0..(swarm.totalChunks - 1)
    /\ \A i \in DOMAIN swarm.receivedChunks :
          Len(swarm.receivedChunks[i].data) =
              Min2(CHUNK_SIZE, swarm.metadata.totalSize - i * CHUNK_SIZE)

\* C24: reassembly fails on a piece set that lacks an index of 0..totalChunks-1 or
\* holds a piece of the wrong length for its position: a blob is handed to the loader,
\* and onModelReceived published, only for a content whose stored pieces are complete.
IncompleteNeverReceived ==
    \A k \in 1..Len(out) :
        out[k].type \in {"import", "onModelReceived"} =>
            PiecesComplete(swarms[out[k].modelId])

\* the last call was requestMoreChunks
AskedForMore == smLast.op = "requestMoreChunks" /\ smLast.pre.exists

\* the bitfield the manager was given for the peer
BitfieldGiven(peerId) ==
    LET k == CHOOSE k \in 1..Len(smLast.bits) : smLast.bits[k].peerId = peerId
    IN  smLast.bits[k].bitfield

\* the indices requested by the time the k-th action of the last call was emitted
RequestedBefore(k) ==
    DOMAIN smLast.pre.requestedChunks \cup {smLast.actions[j].chunkIndex : j \in 1..(k - 1)}

\* C25: in one pass of requestMoreChunks the requests to any one peer come in ascending
\* rarity, ties in ascending index, and no request is emitted while the same peer has a
\* strictly rarer piece that is not owned and not yet requested.
RarestFirst ==
    AskedForMore =>
        /\ \A k, l \in 1..Len(smLast.actions) :
              (k < l /\ smLast.actions[k].peerId = smLast.actions[l].peerId) =>
                  LET rk == Rarity(smLast.actions[k].chunkIndex, smLast.bits)
                      rl == Rarity(smLast.actions[l].chunkIndex, smLast.bits)
                  IN  rk < rl \/ (rk = rl /\ smLast.actions[k].chunkIndex < smLast.actions[l].chunkIndex)
        /\ \A k \in 1..Len(smLast.actions) :
              ~ \E j \in 0..(smLast.pre.totalChunks - 1) :
                    /\ j \notin smLast.pre.ownChunks
                    /\ j \notin RequestedBefore(k)
                    /\ hasBit(BitfieldGiven(smLast.actions[k].peerId), j)
                    /\ Rarity(j, smLast.bits) < Rarity(smLast.actions[k].chunkIndex, smLast.bits)

\* one peer was asked for a rarer piece of higher index before a commoner one
RarerAskedFirst ==
    /\ AskedForMore
    /\ \E k, l \in 1..Len(smLast.actions) :
          /\ k < l
          /\ smLast.actions[k].peerId = smLast.actions[l].peerId
          /\ smLast.actions[k].chunkIndex > smLast.actions[l].chunkIndex
          /\ Rarity(smLast.actions[k].chunkIndex, smLast.bits)
                < Rarity(smLast.actions[l].chunkIndex, smLast.bits)

\* an offer or an answer that names no target
NoTargetEnvelope(c, type) ==
    \/ EarlySignaling(c, type, NoPeer)
    \/ \E claimed \in Clients \cup {NoPeer} : TkSignaling(c, type, NoPeer, claimed)

\* C26: an offer or answer that reaches the tracker without a `to` is dropped: the
\* tracker sends nothing to anyone and none of its state changes.
NoTargetDropped ==
    [][\A c \in EarlyClients, type \in {"offer", "answer"} :
          NoTargetEnvelope(c, type) =>
              /\ tkSent' = << >>
              /\ UNCHANGED << tkClients, tkModels, tkSwarms >>]_vars

\* the last message was an offer or an ice envelope without `to`, from a member of the
\* room it names
RoomBroadcast ==
    /\ rmLast.type \in {"offer", "ice"}
    /\ rmLast.to = NoPeer
    /\ rmLast.from \in MemberIds(rmRooms[rmLast.infoHash].members)

VerifiedPieceActions ==
    StoredAPiece =>
        LET i    == smLast.message.chunkIndex
            m    == smLast.message.modelId
            rest == SubSeq(smLast.actions, 3, Len(smLast.actions))
        IN  /\ i \in DOMAIN smSwarm.receivedChunks
            /\ smSwarm.receivedChunks[i] = ChunkOf(smLast.message)
            /\ smSwarm.ownChunks = smLast.pre.ownChunks \cup {i}
            /\ i \notin DOMAIN smSwarm.requestedChunks
            /\ Len(smLast.actions) >= 2
            /\ smLast.actions[1] = Act("broadcast_have", NoPeer, m, i, Undefined)
            /\ smLast.actions[2] = Act("download_progress", NoPeer, m, Undefined,
                                       << Cardinality(smSwarm.ownChunks) * 100,
                                          smSwarm.totalChunks >>)
            /\ IF Cardinality(smSwarm.ownChunks) = smSwarm.totalChunks
               THEN rest = << Act("download_complete", NoPeer, m, Undefined, Undefined) >>
               ELSE rest = requestMoreChunks(
                               checkTimeouts(storePiece(smLast.pre, smLast.message), smLast.clock),
                               m, smLast.bits).actions

\* a verified piece was stored and requests followed the have and the progress
PieceThenRequests ==
    /\ StoredAPiece
    /\ Len(smLast.actions) >= 3
    /\ smLast.actions[3].type = "request_chunk"

\* C29: handleRequest returns send_piece, for the peer that asked, only when the swarm
\* of the content exists and owns the index, and the piece returned is the one of that
\* index; for a content without a swarm or an index not owned it returns nothing; the
\* swarm is as it was; and the coordinator sends a piece frame only for a request frame,
\* to the peer that sent it.
PieceOnlyOnRequest ==
    /\ smLast.op = "handleRequest" =>
          LET swarm == IF smLast.pre.exists /\ smLast.pre.modelId = smLast.message.modelId
                       THEN smLast.pre ELSE NoSwarm
              i     == smLast.message.chunkIndex
          IN  /\ smSwarm = smLast.pre
              /\ IF swarm.exists /\ i \in swarm.ownChunks
                 THEN /\ Len(smLast.actions) = 1
                      /\ smLast.actions[1].type = "send_piece"
                      /\ smLast.actions[1].peerId = smLast.peerId
                      /\ smLast.actions[1].payload.index = i
                      /\ smLast.actions[1].payload = swarm.receivedChunks[i]
                 ELSE smLast.actions = << >>
    /\ smLast.op # "none" =>
          \A k \in 1..Len(smLast.sent) :
              smLast.sent[k].type = "piece" =>
                  /\ smLast.op = "handleRequest"
                  /\ smLast.sent[k].to = smLast.peerId
                  /\ smLast.sent[k].chunkIndex = smLast.message.chunkIndex

\* a request for an owned piece of index above 0 was answered with a piece frame
PieceSent ==
    /\ smLast.op = "handleRequest"
    /\ smLast.message.chunkIndex > 0
    /\ Len(smLast.sent) = 1
    /\ smLast.sent[1].type = "piece"

\* the request_chunk actions of the last call, when it was one of the two selections
Selected ==
    IF smLast.op \in {"requestMoreChunks", "requestChunksFromPeer"} /\ smLast.pre.exists
    THEN smLast.actions
    ELSE << >>

\* the peer has a bitfield for the content and bit i is set in it
PeerHasBit(peerId, i) ==
    \E k \in 1..Len(smLast.bits) :
        /\ smLast.bits[k].peerId = peerId
        /\ smLast.bits[k].bitfield # NoBitfield
        /\ hasBit(smLast.bits[k].bitfield, i)

\* C30: every request_chunk that requestMoreChunks or requestChunksFromPeer emits names
\* a piece whose bit is set in that peer's bitfield, that is not owned, and that was not
\* in requestedChunks when the action was emitted; a peer with no bitfield or one of
\* zeros only gets no request.
RequestsOnlyWhatPeerHas ==
    \A k \in 1..Len(Selected) :
        /\ Selected[k].type = "request_chunk"
        /\ PeerHasBit(Selected[k].peerId, Selected[k].chunkIndex)
        /\ Selected[k].chunkIndex \notin smLast.pre.ownChunks
        /\ Selected[k].chunkIndex \notin RequestedBefore(k)

\* a selection asked one peer and left out a peer that has no bitfield or holds nothing
SomePeerNotAsked ==
    /\ Len(Selected) > 0
    /\ \E k \in 1..Len(smLast.bits) :
          /\ \A i \in SmRange : ~PeerHasBit(smLast.bits[k].peerId, i)
          /\ \A j \in 1..Len(Selected) : Selected[j].peerId # smLast.bits[k].peerId

\* the next frame of seeder p is a metadata frame and the participant handles it
MetadataHandled(p) ==
    /\ chIn[p] # << >>
    /\ Head(chIn[p]).type = "metadata"
    /\ RecDeliver(p)

\* C31: a metadata frame for a content that has a swarm changes nothing of the swarm
\* (owned, requested, received, start time), announces nothing and requests nothing; a
\* metadata frame for a content without a swarm creates a leeching swarm that owns no
\* piece.
KnownMetadataIgnored ==
    [][\A p \in Peers :
          MetadataHandled(p) =>
              LET m == Head(chIn[p]).payload.id
              IN  IF swarms[m].exists
                  THEN /\ swarms' = swarms
                       /\ out' = << >>
                       /\ chOut' = chOut
                  ELSE /\ swarms'[m].exists
                       /\ swarms'[m].startTime # Undefined
                       /\ swarms'[m].ownChunks = {}
                       /\ swarms'[m].metadata = Head(chIn[p]).payload]_vars

\* both seeders are connected, the content has a swarm and the metadata frames of both
\* have been handled: the second was for a content already known
BothMetadataHandled ==
    /\ Len(peers) = Cardinality(Peers)
    /\ \E m \in Models : swarms[m].exists
    /\ \A p \in Peers : \A k \in 1..Len(chIn[p]) : chIn[p][k].type # "metadata"

\* the bits a bitfield has set; none when the peer has no bitfield for the content
BitsOf(bitfield) ==
    IF bitfield = NoBitfield THEN {}
    ELSE {j \in 0..(8 * Len(bitfield) - 1) : hasBit(bitfield, j)}

\* the bitfield the record of peer p holds for content m in the peer list ps
BitfieldIn(ps, p, m) == ps[CHOOSE k \in 1..Len(ps) : ps[k].id = p].bitfield[m]

\* C32: when a have frame for piece i of a content arrives from a connected peer, the
\* bits of that peer's bitfield for the content are afterwards those it had and bit i,
\* the swarm is untouched, and a request goes out only if the swarm is leeching.
HaveSetsBit ==
    [][\A p \in Peers, m \in Models, i \in HaveRange :
          (RecvHave(p, m, i) /\ HasPeer(p)) =>
              /\ BitsOf(BitfieldIn(peers', p, m)) = BitsOf(BitfieldIn(peers, p, m)) \cup {i}
              /\ swarms' = swarms
              /\ (\E k \in 1..Len(out') : out'[k].type = "request") => Leeching(m)]_vars


\* C33: an iceRestart offer is sent only for a peer this side initiated; a peer whose
\* connection is failed is declared closed (record removed, onPeerDisconnected
\* published) only once the ICE-restart grace period has run out since it failed, and a
\* peer this side initiated only after an iceRestart offer was sent to it
FailedDeclaredClosed(p) ==
    /\ cState[p] = "failed"
    /\ p \notin cPeers'
    /\ cOut' = << Note("onPeerDisconnected", p) >>

RestartBeforeClosed ==
    [][\A p \in Active :
          /\ cOut' = << Note("iceRestart", p) >> => p \in cInitiator
          /\ FailedDeclaredClosed(p) =>
                 /\ cClock >= cSince[p] + ICE_RESTART_GRACE_PERIOD
                 /\ p \in cInitiator => p \in cRestarted]_vars


\* C34: whatever the order of delivery, receiveChunk returns null on every call but the one
\* that completes the set of chunks, where it returns the package with a blob of
\* totalSize bytes; that happens once; a chunk whose index is already held returns null
\* and leaves the progress as it was
IntactBefore(k) == {rvSeen[j].index : j \in {x \in 1..(k - 1) : rvSeen[x].intact}}

Completes(k) ==
    /\ rvSeen[k].intact
    /\ rvSeen[k].index \notin IntactBefore(k)
    /\ IntactBefore(k) \cup {rvSeen[k].index} = {c.index : c \in {pieces[j] : j \in 1..Len(pieces)}}

CompletesOnce ==
    (rvSeen # << >> /\ rvSeen[1].known) =>
        \A k \in 1..Len(rvSeen) :
            /\ rvSeen[k].returned # Null <=> Completes(k)
            /\ Completes(k) =>
                   /\ rvSeen[k].returned.package = prepareModel(RvModel, artifact).package
                   /\ Len(rvSeen[k].returned.blob) = rvSeen[k].returned.package.totalSize
                   /\ rvSeen[k].returned.blob = artifact
            /\ (rvSeen[k].intact /\ rvSeen[k].index \in IntactBefore(k)) =>
                   /\ rvSeen[k].returned = Null
                   /\ rvSeen[k].after = rvSeen[k].before
            /\ Cardinality({j \in 1..Len(rvSeen) : rvSeen[j].returned # Null}) <= 1

CompletedOutOfOrder ==
    /\ Len(rvSeen) = MaxDeliveries
    /\ rvSeen[1].index = 2 /\ rvSeen[1].intact /\ rvSeen[1].known
    /\ rvSeen[2].index = 2 /\ rvSeen[2].intact
    /\ rvSeen[3].index = 0 /\ rvSeen[3].intact
    /\ rvSeen[4].index = 1 /\ rvSeen[4].returned # Null


\* C35: prepareModel cuts an artifact of len > 0 bytes into the n chunks with
\* (n - 1) * CHUNK_SIZE < len <= n * CHUNK_SIZE: their indices are 0..n-1 in order, each
\* holds CHUNK_SIZE bytes but the last, which holds the rest, each passes verifyChunk, and
\* the package says totalChunks = n and totalSize = len
PreparedShape ==
    [][(pieces = << >> /\ pieces' # << >>) =>
          LET n   == Len(pieces')
              pkg == prepareModel("m1", artifact).package
          IN  /\ (n - 1) * CHUNK_SIZE < Len(artifact)
              /\ Len(artifact) <= n * CHUNK_SIZE
              /\ pkg.totalChunks = n
              /\ pkg.totalSize = Len(artifact)
              /\ \A k \in 1..n :
                     /\ pieces'[k].index = k - 1
                     /\ pieces'[k].total = n
                     /\ Len(pieces'[k].data) =
                            IF k < n THEN CHUNK_SIZE ELSE Len(artifact) - (n - 1) * CHUNK_SIZE
                     /\ verifyChunk(pieces'[k])]_vars

PreparedWholeChunks ==
    /\ Len(artifact) = 2 * CHUNK_SIZE
    /\ Len(pieces) = 2
    /\ pieces[1].index = 0 /\ pieces[2].index = 1
    /\ Len(pieces[2].data) = CHUNK_SIZE


\* C36: a content is handed to the loader only by the step that brings in its last
\* missing piece: no piece that reaches a swarm already owning every piece, a repeated or
\* unrequested one or one sent to a seeder, completes the download again
ImportsOf(o, m) == {k \in 1..Len(o) : o[k].type = "import" /\ o[k].modelId = m}

CompletesAtMostOnce ==
    [][\A m \in Models :
          /\ ImportsOf(out', m) # {} => ~OwnsAll(m)
          /\ Cardinality(ImportsOf(out', m)) <= 1]_vars


\* C37: no peer id has two RTCPeerConnections at once: while a createPeerConnection for
\* a peer is suspended at createOffer no other connection for that peer is stored, so the
\* resumed call stores over no live record
OneConnectionPerPeer == cPending \cap cPeers = {}


\* C38: disconnect() is final: once it has been called the tracker socket is closing or
\* closed, never connecting or open again
DisconnectIsFinal == tornDown => ws \in {"closing", "closed"}


\* C39: every offer, answer, ice-candidate and request-connection envelope the tracker
\* delivers carries as from the id the tracker gave the sending connection, whatever from
\* the sender wrote: the step taken for a message with a from is the step taken for
\* the same message without one
Relayed(c, claimed) ==
    \/ \E type \in SignalTypes, to \in Clients : TkSignaling(c, type, to, claimed)
    \/ TkConnectionRequest(c, claimed)

RelayedUnclaimed(c) ==
    \/ \E type \in SignalTypes, to \in Clients : TkSignaling(c, type, to, NoPeer)
    \/ TkConnectionRequest(c, NoPeer)

FromIsSender ==
    [][\A c \in Clients, claimed \in Clients \cup {NoPeer} :
          Relayed(c, claimed) =>
              /\ \A k \in 1..Len(tkSent') : tkSent'[k].msg.from = c
              /\ RelayedUnclaimed(c)]_vars

RelayedToOther ==
    /\ tkSent # << >>
    /\ tkSent[1].msg.type = "offer"
    /\ tkSent[1].to = "c2"
    /\ tkSent[1].msg.from = "c1"


\* C40: a client whose tracker connection is open and stays open remains a member of
\* every swarm it announced: no step removes it from one, and none sends peer-left-swarm
\* about it
LeftSwarmSent(sent, c, m) ==
    \E k \in 1..Len(sent) :
        /\ sent[k].msg.type = "peer-left-swarm"
        /\ sent[k].msg.peerId = c
        /\ sent[k].msg.modelId = m

OpenMembersStay ==
    [][\A c \in Clients, m \in Contents :
          (/\ c \in tkClients
           /\ c \in tkClients'
           /\ tkSwarms[m].exists
           /\ c \in MemberIds(tkSwarms[m].members)) =>
              /\ tkSwarms'[m].exists
              /\ c \in MemberIds(tkSwarms'[m].members)
              /\ ~LeftSwarmSent(tkSent', c, m)]_vars

====
